---- MODULE Spec2Model ----
(***************************************************************************)
(* Market-with-Excel: the feed connection lifecycle of                     *)
(* ExcelWebSocketHandler (websocket_handler.py) as driven by run_monitor   *)
(* and initialize_components (run_excel_monitor.py), and the tick          *)
(* ingestion of _on_ticks into the three snapshot maps, their readers     *)
(* and the hand-over of views to the worker of ExcelUpdater (updater.py).  *)
(*                                                                         *)
(* Specifications of the module:                                           *)
(*   Spec         the process: the main thread and the feed's callback     *)
(*                thread running _connect / _handle_reconnect of the       *)
(*                current handler;                                         *)
(*   SpecTicks    one connected handler: _on_connect's subscriptions and   *)
(*                the tick batches applied by _on_ticks;                   *)
(*   SpecStore    the store under its lock: _on_ticks beside run_monitor   *)
(*                of monitor.py and _update_options_chain;                 *)
(*   SpecPublish  update_data, the clock and _excel_worker;                *)
(*   SpecOptions  the deferred subscription of the options, with the       *)
(*                threads of the program taking their steps;               *)
(*   SpecShutdown run_monitor leaving its loop, and the worker;            *)
(*   SpecRetry    retry_excel_operation (nifty500_historical_data.py);     *)
(*   SpecGreeks   calculate_greeks and estimate_iv (greeks.py);            *)
(*   SpecStrikes  the strikes _subscribe_options selects and the rows      *)
(*                _excel_worker writes for them;                           *)
(*   SpecRows     the same, with the spot price moving in between;         *)
(*   SpecClose    close() of a connected handler and the callbacks that    *)
(*                follow it;                                               *)
(*   SpecMonitor  run_monitor of monitor.py on a connected handler;        *)
(*   SpecLimiter  RateLimiter.wait_if_needed                               *)
(*                (nifty500_historical_data.py);                           *)
(*   SpecCallers  update_data called from two threads, and the worker;     *)
(*   SpecWorker   the same, with the worker thread scheduled fairly;       *)
(*   SpecVolumes  the ticks of a session in which on_connect is delivered  *)
(*                again.                                                   *)
(***************************************************************************)
EXTENDS Integers, Sequences, FiniteSets, TLC

VARIABLES
    \* ---- run_excel_monitor.py (main thread) ----
    pc,            \* position of each thread
    should_exit,   \* module global set by signal_handler
    exit_status,   \* <<>> while running, else <<status given to sys.exit>>
    attempt,       \* initialize_components: attempt
    ws_handler,    \* run_monitor: 0 for None, else the handler's number
    gen,           \* number of ExcelWebSocketHandler objects constructed
    \* ---- ExcelWebSocketHandler fields (of handler number gen) ----
    connected,     \* self.connected
    rcount,        \* self._reconnect_count
    backoff_time,  \* self.backoff_time
    selfToken,     \* self.token: "init", the one initialize_components got
    feedSt,        \* state of the connection of self.kws
    kwsTok,        \* access token self.kws was created with ("none": no kws)
    pendingClose,  \* on_close still to be delivered after on_error
    \* ---- locals of _connect, per thread ----
    tok,           \* access_token, by where it comes from: "none" (not
                   \* assigned in this call), "fresh" (returned by this
                   \* call's ensure_valid_tokens)
    \* ---- observations (history) ----
    why,           \* "tokens" while the thread is on its way into
                   \* _handle_reconnect from a failed ensure_valid_tokens
    waits,         \* sleeps of _handle_reconnect on the current handler
                   \* while none of its _connect calls has succeeded
    succeeded,     \* some _connect call of the current handler succeeded
    gave_up,       \* 0, or the number of the first handler that reported
                   \* "Max reconnection attempts reached"
    initFailed,    \* initialize_components raised
    opens,         \* on_connect deliveries (bounded)
    drops,         \* disconnects delivered (bounded)
    \* ---- _on_connect's subscriptions and _on_ticks (SpecTicks) ----
    token_symbol_map, \* self.token_symbol_map: token -> symbol
    market_data,      \* self.market_data: symbol -> entry
    futures_data,     \* self.futures_data: symbol -> entry
    options_data,     \* self.options_data: <<index, strike, type>> -> entry
    has_ltv,          \* the attribute self.last_traded_volumes exists
    ltv,              \* self.last_traded_volumes: symbol -> volume
    subscribed,       \* tokens passed to self.kws.subscribe so far
    sentUnmapped,     \* tokens that had no entry in token_symbol_map when a
                      \* subscribe call carried them (observation)
    published,        \* <<>>, or the views of the last update_data call
    remaining,        \* ticks of the current batch the loop has not taken yet
    last_tick,        \* the tick the loop has taken last
    outcome,          \* what became of the last batch (observation)
    tpc,              \* feed thread: position in _on_connect / _on_ticks
    opc,              \* thread delayed_options_subscription: position
    optTodo,          \* _subscribe_options: instruments still to be added
    options_tokens,   \* _subscribe_options: options_tokens
    connects,         \* on_connect deliveries (bounded)
    batches,          \* tick batches delivered (bounded)
    \* ---- the store lock and the copies of the maps ----
    lock,             \* self._lock of the handler: "free", or its holder
    applied,          \* per map, the tokens an entry was stored for
                      \* (observation)
    views,            \* _on_ticks: the copies taken for update_data so far
    \* ---- monitor.py: run_monitor, and a caller of _update_options_chain ----
    rpc,              \* reader thread: position in the loop of run_monitor
    rd,               \* run_monitor: market_data, options_data (the copies)
    rdShared,         \* per copy, the keys whose entry is still the object
                      \* the store holds
    rdCount,          \* entries stored in the map when the get_* call in
                      \* progress was made (observation)
    reads,            \* turns of the loop of run_monitor (bounded)
    cpc,              \* caller of _update_options_chain: position
    chains,           \* calls of _update_options_chain (bounded)
    \* ---- updater.py: ExcelUpdater ----
    now,              \* time.time(), in tenths of a second
    last_update,      \* self._last_update
    queue,            \* self._queue
    wpc,              \* thread _excel_worker: position
    cur,              \* _excel_worker: data, the view taken from the queue
    sink,             \* what the worksheet shows: the views written to it
    enqueuedAt,       \* <<>>, or <<time of the last put>> (observation)
    calledAt,         \* <<>>, or <<time of the last update_data call>>
    handed,           \* the views put on the queue so far (observation)
    \* ---- observations of the subscriptions and the ticks ----
    optCalls,         \* calls of _subscribe_options on this handler
    lastRecv,         \* per token of the token map, <<last_price,
                      \* change>> of the last tick the feed delivered
    \* ---- ExcelUpdater at shutdown ----
    stop_event,       \* self._stop_event is set
    \* ---- nifty500_historical_data.py: retry_excel_operation ----
    max_retries,      \* the argument max_retries
    retry_attempt,    \* attempt, the variable of the for loop
    retry_pc,         \* position in retry_excel_operation
    retry_log,        \* what happened so far: calls of operation with
                      \* their outcome, and sleeps (observation)
    retry_out,        \* <<>>, or how the function ended
    \* ---- greeks.py: GreeksCalculator ----
    np_scalars,       \* norm.pdf and norm.cdf return numpy.float64 (TRUE) or
                      \* float (FALSE)
    greeks_args,      \* calculate_greeks: S, K, T, sigma, is_call
    greeks_out,       \* <<>>, or <<the record calculate_greeks returned>>
    iv_args,          \* estimate_iv: S, K, T, market_price, is_call
    iv_sigma,         \* estimate_iv: sigma
    iv_iter,          \* estimate_iv: turns of the for loop taken
    iv_pc,            \* position in estimate_iv
    iv_out,           \* <<>>, or what estimate_iv returned
    \* ---- the strikes of one index: subscribed and rendered ----
    chain_index,      \* index_name, the index looked at
    chain_spot,       \* last_price of its spot entry in market_data
    sub_atm,          \* _subscribe_options: <<>>, or <<atm_strike>>
    sub_strikes,      \* _subscribe_options: <<>>, or <<strikes>>
    chain_data,       \* the strikes of the index with an entry in
                      \* options_data of the view the worker is given
    render_atm,       \* _excel_worker: <<>>, or <<atm_strike>>
    render_rows,      \* _excel_worker: <<>>, or <<the rows written, each
                      \* with its strike and its row_offset>>
    \* ---- ExcelWebSocketHandler.close ----
    closed,           \* close() has been called on the handler
    \* ---- RateLimiter (nifty500_historical_data.py) ----
    rl_clock,         \* time.time(), in ticks of 1/TicksPerSecond second
    rl_requests,      \* self.requests
    rl_returns,       \* the times at which wait_if_needed returned
    \* ---- run_monitor (monitor.py) ----
    mon_pc,           \* where run_monitor is: "off", "check", "update",
                      \* "raised", "finally", "done"
    error_count,      \* its local error_count
    mon_exc,          \* the exception that leaves run_monitor, or "none"
    \* ---- update_data called from two threads ----
    upd_pc,           \* per caller: "idle", "test", "assign", "put"
    upd_time          \* per caller: its local current_time

connVars == <<pc, should_exit, exit_status, attempt, ws_handler, gen,
              connected, rcount, backoff_time, selfToken, feedSt, kwsTok,
              pendingClose, tok, why, waits, succeeded, gave_up, initFailed,
              opens, drops>>

tickVars == <<token_symbol_map, market_data, futures_data, options_data,
              has_ltv, ltv, subscribed, sentUnmapped, published,
              remaining, last_tick, outcome, tpc, opc, optTodo,
              options_tokens, connects, batches>>

storeVars == <<lock, applied, views>>

readerVars == <<rpc, rd, rdShared, rdCount, reads, cpc, chains>>

updaterVars == <<now, last_update, queue, wpc, cur, sink, enqueuedAt,
                 calledAt, handed>>

obsVars == <<optCalls, lastRecv>>

shutVars == <<stop_event>>

retryVars == <<max_retries, retry_attempt, retry_pc, retry_log, retry_out>>

greeksVars == <<np_scalars, greeks_args, greeks_out, iv_args, iv_sigma, iv_iter, iv_pc,
                iv_out>>

strikeVars == <<chain_index, chain_spot, sub_atm, sub_strikes, chain_data,
                render_atm, render_rows>>

closeVars == <<closed>>

limiterVars == <<rl_clock, rl_requests, rl_returns>>

monitorVars == <<mon_pc, error_count, mon_exc>>

callerVars == <<upd_pc, upd_time>>

lateVars == <<closeVars, limiterVars, monitorVars, callerVars>>

\* what the program and the functions checked on their own work on
progVars == <<connVars, tickVars, storeVars, readerVars, updaterVars, obsVars,
              shutVars, retryVars, greeksVars, strikeVars>>

lateButLimiter == <<closeVars, monitorVars, callerVars>>

lateButMonitor == <<closeVars, limiterVars, callerVars>>

lateButCallers == <<closeVars, limiterVars, monitorVars>>

calcVars == <<retryVars, greeksVars, strikeVars, lateVars>>

vars == <<connVars, tickVars, storeVars, readerVars, updaterVars, obsVars,
          shutVars, calcVars>>

-----------------------------------------------------------------------------
\* Program constants

MAX_RECONNECTS == 5
INITIAL_BACKOFF == 5
BACKOFF_CAP == 300
MAX_INIT_ATTEMPTS == 3
\* ExcelUpdater.__init__: update_interval = 0.5, in tenths of a second
update_interval == 5

\* Bounds of the model
MaxHandlers == 2
MaxOpens == 1
MaxDrops == 1

Threads == {"main", "feed"}

Min(a, b) == IF a < b THEN a ELSE b

-----------------------------------------------------------------------------
\* Pure parts of the handler

\* _handle_reconnect: the budget test
CanReconnect(c) == c < MAX_RECONNECTS

\* _handle_reconnect: the doubled backoff
NextBackoff(b) == Min(BACKOFF_CAP, b * 2)

\* _connect: backoff_time after a successful connection
BackoffOnSuccessBug(b) == b
BackoffOnSuccess(b) == INITIAL_BACKOFF

\* _connect: the token the KiteTicker is created with
FeedTokenBug(t) == selfToken
FeedToken(t) == tok[t]

\* _connect: where an exception of ensure_valid_tokens takes the thread:
\* into the except clause, which calls _handle_reconnect
OnTokenErrorBug(t) == IF t = "main" THEN "ic_except" ELSE "idle"
OnTokenError(t) == "hr"

-----------------------------------------------------------------------------
\* Symbols are sequences of characters, so that startswith, endswith, "in",
\* split, slicing and the digit filter are computed as _on_ticks computes
\* them.

NIFTY_50 == <<"N", "I", "F", "T", "Y", " ", "5", "0">>
NIFTY_BANK == <<"N", "I", "F", "T", "Y", " ", "B", "A", "N", "K">>
SENSEX == <<"S", "E", "N", "S", "E", "X">>
NIFTY_FUT == <<"N", "I", "F", "T", "Y", " ", "F", "U", "T">>
SENSEX_FUT == <<"S", "E", "N", "S", "E", "X", " ", "F", "U", "T">>
NIFTY22000CE == <<"N", "I", "F", "T", "Y", "2", "2", "0", "0", "0", "C", "E">>
NIFTY23000PE == <<"N", "I", "F", "T", "Y", "2", "3", "0", "0", "0", "P", "E">>
NIFTYCE == <<"N", "I", "F", "T", "Y", "C", "E">>
XYZ100PE == <<"X", "Y", "Z", "1", "0", "0", "P", "E">>
\* a weekly contract: the day of the expiry (16) precedes the strike (22000)
NIFTY1622000CE ==
    <<"N", "I", "F", "T", "Y", "1", "6", "2", "2", "0", "0", "0", "C", "E">>

FUT == <<"F", "U", "T">>
CE == <<"C", "E">>
PE == <<"P", "E">>

\* the prefixes _on_ticks tests, in the order it tests them
IndexPrefixes ==
    << <<"N", "I", "F", "T", "Y">>,
       <<"B", "A", "N", "K", "N", "I", "F", "T", "Y">>,
       <<"F", "I", "N", "N", "I", "F", "T", "Y">>,
       <<"M", "I", "D", "C", "P", "N", "I", "F", "T", "Y">>,
       <<"S", "E", "N", "S", "E", "X">> >>

Max(a, b) == IF a > b THEN a ELSE b

\* str.startswith, str.endswith
StartsWith(s, p) == Len(p) <= Len(s) /\ SubSeq(s, 1, Len(p)) = p
EndsWith(s, p) == Len(p) <= Len(s) /\ SubSeq(s, Len(s) - Len(p) + 1, Len(s)) = p

\* positions at which p occurs in s
Occurrences(s, p) ==
    {i \in 1..(Len(s) - Len(p) + 1) : SubSeq(s, i, i + Len(p) - 1) = p}

\* p in s
Contains(s, p) == Occurrences(s, p) # {}

\* s.split(p)[0]: what precedes the first occurrence of p, or all of s
SplitFirst(s, p) ==
    IF Occurrences(s, p) = {}
       THEN s
       ELSE SubSeq(s, 1, (CHOOSE i \in Occurrences(s, p) :
                            \A j \in Occurrences(s, p) : i <= j) - 1)

\* s[-n:]
LastN(s, n) == SubSeq(s, Max(1, Len(s) - n + 1), Len(s))

DigitChars == <<"0", "1", "2", "3", "4", "5", "6", "7", "8", "9">>
IsDigit(c) == \E d \in 1..10 : DigitChars[d] = c
DigitValue(c) == (CHOOSE d \in 1..10 : DigitChars[d] = c) - 1

\* ''.join(filter(str.isdigit, s))
Digits(s) == SelectSeq(s, IsDigit)

\* float(s) for a string of digits: <<value>>, or <<>> for the ValueError
\* float('') raises
RECURSIVE DecimalValue(_)
DecimalValue(s) ==
    IF s = <<>> THEN 0
    ELSE 10 * DecimalValue(SubSeq(s, 1, Len(s) - 1)) + DigitValue(s[Len(s)])

Float(s) == IF s = <<>> THEN <<>> ELSE <<DecimalValue(s)>>

\* _on_ticks: the if / elif chain over the index prefixes: <<index_name>>,
\* or <<>> for None
IndexName(symbol) ==
    LET hits == {i \in 1..Len(IndexPrefixes) : StartsWith(symbol, IndexPrefixes[i])}
    IN IF hits = {} THEN <<>>
       ELSE <<IndexPrefixes[CHOOSE i \in hits : \A j \in hits : i <= j]>>

\* _on_ticks: strike_str and float(strike_str)
StrikeStr(symbol) == Digits(LastN(SplitFirst(SplitFirst(symbol, CE), PE), 6))
Strike(symbol) == Float(StrikeStr(symbol))

\* _on_ticks: option_type
OptionType(symbol) == IF Contains(symbol, CE) THEN CE ELSE PE

\* dictionaries
EmptyMap == [k \in {} |-> 0]
Put(m, k, v) == [x \in DOMAIN m \cup {k} |-> IF x = k THEN v ELSE m[x]]
Get(m, k, default) == IF k \in DOMAIN m THEN m[k] ELSE default

-----------------------------------------------------------------------------
\* Data the handler is given. src/utils/constants.py is not part of the
\* sources at hand: SPOT_TOKENS and SYMBOL_TOKEN_MAP follow the
\* specification ("spot/index tokens are known statically at startup"),
\* and whatever else the static map may hold is an input (extra).

SPOT_TOKENS == {[symbol |-> NIFTY_50, token |-> 1]}

SYMBOL_TOKEN_MAP(extra) ==
    [t \in {i.token : i \in SPOT_TOKENS} \cup DOMAIN extra |->
        IF t \in DOMAIN extra
           THEN extra[t]
           ELSE (CHOOSE i \in SPOT_TOKENS : i.token = t).symbol]

\* __init__: self.index_tokens
index_tokens == {i.token : i \in SPOT_TOKENS}

\* static entries besides the spot tokens the runs are checked with
StaticExtras ==
    {EmptyMap, [t \in {4, 8} |-> IF t = 4 THEN XYZ100PE ELSE NIFTY1622000CE]}

\* Rows of the instruments master the subscriptions may be answered with:
\* the futures contracts _subscribe_futures keeps (nearest expiry per
\* index, with the symbol it stores for them), and option rows of the
\* nearest expiry whose tradingsymbol starts with NIFTY
FuturesRows ==
    [NFO |-> {[token |-> 2, excel_symbol |-> NIFTY_FUT]},
     BFO |-> {[token |-> 6, excel_symbol |-> SENSEX_FUT]}]
Exchanges == <<"NFO", "BFO">>

OptionRows ==
    {[token |-> 3, symbol |-> NIFTY22000CE, strike |-> 22000],
     [token |-> 5, symbol |-> NIFTYCE, strike |-> 22050],
     [token |-> 7, symbol |-> NIFTY23000PE, strike |-> 23000]}

\* Ticks the feed may deliver. instrument_token 0 stands for a tick
\* without that field, volume -1 for a volume that is not a number (None);
\* last_price and change are what tick.get(..., 0.0) returns, 0 for a tick
\* without the field.
Ticks ==
    [instrument_token : {1}, last_price : {0, 22010}, change : {0, 10},
     volume : {0}, trades : {<<>>}]
    \cup [instrument_token : {2}, last_price : {100}, change : {0},
          volume : {-1, 0, 5}, trades : {<<>>}]
    \cup [instrument_token : {2}, last_price : {100}, change : {100},
          volume : {0}, trades : {<<3>>}]
    \cup [instrument_token : {0, 3, 4, 5, 8, 9}, last_price : {100},
          change : {0}, volume : {7}, trades : {<<>>}]

\* Bounds of the tick runs
MaxBatchLen == 2
MaxBatches == 2
MaxConnects == 1

\* last_tick before any tick is taken
NoTick ==
    [instrument_token |-> 0, last_price |-> 0, change |-> 0, volume |-> 0,
     trades |-> <<>>]

\* what is known of a batch: whether an exception left the for loop, how
\* many of its ticks the loop never reached, what the loop printed about
\* ticks it stored nothing for, whether update_data was called
NoBatch == [raised |-> FALSE, unreached |-> 0, log |-> <<>>, published |-> FALSE]

\* run_monitor (monitor.py) before market_data and options_data are
\* assigned, and what its copies share with the store then
NoCopies == [market |-> EmptyMap, options |-> EmptyMap]
NoShares == [market |-> {}, options |-> {}]

-----------------------------------------------------------------------------
\* Initial state: the process before run_monitor is entered

\* retry_excel_operation not called
RetryOff ==
    /\ max_retries = 0
    /\ retry_attempt = 0
    /\ retry_pc = "off"
    /\ retry_log = <<>>
    /\ retry_out = <<>>

\* no method of GreeksCalculator called
NoGreeksArgs == [S |-> 0, K |-> 0, T |-> 0, sigma |-> 0, is_call |-> TRUE]
NoIvArgs == [S |-> 0, K |-> 0, T |-> 0, market_price |-> 0, is_call |-> TRUE]

GreeksOff ==
    /\ np_scalars = TRUE
    /\ greeks_args = NoGreeksArgs
    /\ greeks_out = <<>>

IvOff ==
    /\ iv_args = NoIvArgs
    /\ iv_sigma = "initial"
    /\ iv_iter = 0
    /\ iv_pc = "off"
    /\ iv_out = <<>>

StrikesOff ==
    /\ chain_index = <<>>
    /\ chain_spot = 0
    /\ sub_atm = <<>>
    /\ sub_strikes = <<>>
    /\ chain_data = {}
    /\ render_atm = <<>>
    /\ render_rows = <<>>

LimiterOff ==
    /\ rl_clock = 0
    /\ rl_requests = <<>>
    /\ rl_returns = <<>>

MonitorOff ==
    /\ mon_pc = "off"
    /\ error_count = 0
    /\ mon_exc = "none"

\* the threads that call update_data of one updater at the same time: the
\* callback threads of two KiteTicker objects of the handler
Callers == {"feed1", "feed2"}

CallersOff ==
    /\ upd_pc = [c \in Callers |-> "idle"]
    /\ upd_time = [c \in Callers |-> 0]

LateOff ==
    /\ closed = FALSE
    /\ LimiterOff
    /\ MonitorOff
    /\ CallersOff

\* none of the functions that are checked on their own is called
CalcOff ==
    /\ RetryOff
    /\ GreeksOff
    /\ IvOff
    /\ StrikesOff
    /\ LateOff

\* The handler's maps as __init__ leaves them, no callback delivered yet
TickInit ==
    /\ optCalls = 0
    /\ lastRecv = EmptyMap
    /\ stop_event = FALSE
    /\ token_symbol_map = SYMBOL_TOKEN_MAP(EmptyMap)
    /\ market_data = EmptyMap
    /\ futures_data = EmptyMap
    /\ options_data = EmptyMap
    /\ has_ltv = FALSE
    /\ ltv = EmptyMap
    /\ subscribed = {}
    /\ sentUnmapped = {}
    /\ published = <<>>
    /\ remaining = 0
    /\ last_tick = NoTick
    /\ outcome = NoBatch
    /\ tpc = "off"
    /\ opc = "off"
    /\ optTodo = <<>>
    /\ options_tokens = <<>>
    /\ connects = 0
    /\ batches = 0
    /\ lock = "free"
    /\ applied = [market |-> {}, futures |-> {}, options |-> {}]
    /\ views = <<>>
    /\ rpc = "off"
    /\ rd = NoCopies
    /\ rdShared = NoShares
    /\ rdCount = 0
    /\ reads = 0
    /\ cpc = "off"
    /\ chains = 0
    /\ now = update_interval
    /\ last_update = 0
    /\ queue = <<>>
    /\ wpc = "init"
    /\ cur = <<>>
    /\ sink = <<>>
    /\ enqueuedAt = <<>>
    /\ calledAt = <<>>
    /\ handed = {}

NotStarted ==
    /\ pc = [t \in Threads |-> IF t = "main" THEN "start" ELSE "idle"]
    /\ should_exit = FALSE
    /\ exit_status = <<>>
    /\ attempt = 1
    /\ ws_handler = 0
    /\ gen = 0
    /\ connected = FALSE
    /\ rcount = 0
    /\ backoff_time = INITIAL_BACKOFF
    /\ selfToken = "none"
    /\ feedSt = "none"
    /\ kwsTok = "none"
    /\ pendingClose = FALSE
    /\ tok = [t \in Threads |-> "none"]
    /\ why = [t \in Threads |-> "none"]
    /\ waits = <<>>
    /\ succeeded = FALSE
    /\ gave_up = 0
    /\ initFailed = FALSE
    /\ opens = 0
    /\ drops = 0
    /\ TickInit

Init ==
    /\ NotStarted
    /\ CalcOff

Alive == exit_status = <<>>

-----------------------------------------------------------------------------
\* run_excel_monitor.py: the main thread

\* signal_handler: SIGINT / SIGTERM
Signal ==
    /\ Alive
    /\ ~should_exit
    /\ should_exit' = TRUE
    /\ UNCHANGED <<pc, exit_status, attempt, ws_handler, gen, connected,
                   rcount, backoff_time, selfToken, feedSt, kwsTok,
                   pendingClose, tok, why, waits, succeeded, gave_up,
                   initFailed, opens, drops>>
    /\ UNCHANGED tickVars
    /\ UNCHANGED <<storeVars, readerVars, updaterVars>>
    /\ UNCHANGED <<obsVars, shutVars, calcVars>>

\* run_monitor: installs the signal handlers and calls initialize_components
RunMonitorStart ==
    /\ Alive
    /\ pc["main"] = "start"
    /\ attempt' = 1
    /\ pc' = [pc EXCEPT !["main"] = "ic_loop"]
    /\ UNCHANGED <<should_exit, exit_status, ws_handler, gen, connected,
                   rcount, backoff_time, selfToken, feedSt, kwsTok,
                   pendingClose, tok, why, waits, succeeded, gave_up,
                   initFailed, opens, drops>>
    /\ UNCHANGED tickVars
    /\ UNCHANGED <<storeVars, readerVars, updaterVars>>
    /\ UNCHANGED <<obsVars, shutVars, calcVars>>

\* initialize_components: one turn of its while loop. With the test passed,
\* ensure_valid_tokens() either raises (the except clause is next) or returns;
\* then ExcelUpdater() and ExcelWebSocketHandler.__init__ run up to the
\* call of _connect. The handler run_monitor held before is dropped without
\* being closed, its threads are not followed further. With the test failed
\* the function falls out of the loop and returns None.
IcAttempt ==
    /\ Alive
    /\ pc["main"] = "ic_loop"
    /\ IF attempt <= MAX_INIT_ATTEMPTS /\ ~should_exit
          THEN \E ok \in BOOLEAN :
                 IF ok
                    THEN /\ gen' = gen + 1
                         /\ connected' = FALSE
                         /\ rcount' = 0
                         /\ backoff_time' = INITIAL_BACKOFF
                         /\ selfToken' = "init"
                         /\ feedSt' = "none"
                         /\ kwsTok' = "none"
                         /\ pendingClose' = FALSE
                         /\ waits' = <<>>
                         /\ succeeded' = FALSE
                         /\ tok' = [t \in Threads |-> "none"]
                         /\ why' = [t \in Threads |-> "none"]
                         /\ pc' = [t \in Threads |->
                                     IF t = "main" THEN "tokens" ELSE "idle"]
                         /\ UNCHANGED ws_handler
                    ELSE /\ pc' = [pc EXCEPT !["main"] = "ic_except"]
                         /\ UNCHANGED <<gen, connected, rcount, backoff_time,
                                        selfToken, feedSt, kwsTok, pendingClose,
                                        waits, succeeded, tok, why, ws_handler>>
          ELSE /\ ws_handler' = 0
               /\ pc' = [pc EXCEPT !["main"] = "loop"]
               /\ UNCHANGED <<gen, connected, rcount, backoff_time, selfToken,
                              feedSt, kwsTok, pendingClose, waits, succeeded,
                              tok, why>>
    /\ UNCHANGED <<should_exit, exit_status, attempt, gave_up, initFailed,
                   opens, drops>>
    /\ UNCHANGED tickVars
    /\ UNCHANGED <<storeVars, readerVars, updaterVars>>
    /\ UNCHANGED <<obsVars, shutVars, calcVars>>

\* initialize_components: the except clause: sleep and try again, or raise
\* "Failed to initialize components", which run_monitor's except clause logs
IcExcept ==
    /\ Alive
    /\ pc["main"] = "ic_except"
    /\ IF attempt < MAX_INIT_ATTEMPTS /\ ~should_exit
          THEN /\ attempt' = attempt + 1
               /\ pc' = [pc EXCEPT !["main"] = "ic_loop"]
               /\ UNCHANGED initFailed
          ELSE /\ initFailed' = TRUE
               /\ pc' = [pc EXCEPT !["main"] = "finally"]
               /\ UNCHANGED attempt
    /\ UNCHANGED <<should_exit, exit_status, ws_handler, gen, connected,
                   rcount, backoff_time, selfToken, feedSt, kwsTok,
                   pendingClose, tok, why, waits, succeeded, gave_up, opens,
                   drops>>
    /\ UNCHANGED tickVars
    /\ UNCHANGED <<storeVars, readerVars, updaterVars>>
    /\ UNCHANGED <<obsVars, shutVars, calcVars>>

\* run_monitor: a turn of "while not should_exit" that changes state: the
\* loop is left, or the handler is found disconnected and
\* initialize_components is called again
MonitorLoop ==
    /\ Alive
    /\ pc["main"] = "loop"
    /\ IF should_exit
          THEN /\ pc' = [pc EXCEPT !["main"] = "finally"]
               /\ UNCHANGED attempt
          ELSE /\ ws_handler # 0
               /\ ~connected
               /\ gen < MaxHandlers
               /\ attempt' = 1
               /\ pc' = [pc EXCEPT !["main"] = "ic_loop"]
    /\ UNCHANGED <<should_exit, exit_status, ws_handler, gen, connected,
                   rcount, backoff_time, selfToken, feedSt, kwsTok,
                   pendingClose, tok, why, waits, succeeded, gave_up,
                   initFailed, opens, drops>>
    /\ UNCHANGED tickVars
    /\ UNCHANGED <<storeVars, readerVars, updaterVars>>
    /\ UNCHANGED <<obsVars, shutVars, calcVars>>

\* The status run_monitor's finally clause passes to sys.exit
SysExitStatus == 0

\* run_monitor: the finally clause: ws_handler.close() if there is a
\* handler, then sys.exit(0), which ends the process and its daemon threads
Finally ==
    /\ Alive
    /\ pc["main"] = "finally"
    /\ IF ws_handler # 0
          THEN /\ connected' = FALSE
               /\ feedSt' = IF feedSt = "none" THEN "none" ELSE "closed"
          ELSE UNCHANGED <<connected, feedSt>>
    /\ exit_status' = <<SysExitStatus>>
    /\ pc' = [pc EXCEPT !["main"] = "exited"]
    /\ UNCHANGED <<should_exit, attempt, ws_handler, gen, rcount,
                   backoff_time, selfToken, kwsTok, pendingClose, tok, why,
                   waits, succeeded, gave_up, initFailed, opens, drops>>
    /\ UNCHANGED tickVars
    /\ UNCHANGED <<storeVars, readerVars, updaterVars>>
    /\ UNCHANGED <<obsVars, shutVars, calcVars>>

-----------------------------------------------------------------------------
\* websocket_handler.py: _connect and _handle_reconnect, run by the main
\* thread (from __init__) or by the feed's callback thread (from
\* _on_close, _on_error, _on_connect). Each call of the other is the last
\* thing its caller does, so a thread needs a position but no stack.
\* The handler takes no lock around these fields: the two threads
\* interleave between statements, and a step is one statement that reads
\* or writes a field of the handler. _connect's rate-limit cooldown only
\* sleeps and stamps last_connect_attempt, which nothing else reads; no
\* clock is modelled, so entering _connect changes no variable.

\* _connect or _handle_reconnect returns to what called the chain: in the
\* main thread __init__ returns and initialize_components hands the handler
\* to run_monitor; in the feed thread the callback returns
Returns(t) ==
    /\ pc' = [pc EXCEPT ![t] = IF t = "main" THEN "loop" ELSE "idle"]
    /\ ws_handler' = IF t = "main" THEN gen ELSE ws_handler

\* _connect: enctoken, access_token = ensure_valid_tokens(); an exception
\* is caught by _connect's except clause, which calls _handle_reconnect
Tokens(t) ==
    /\ Alive
    /\ pc[t] = "tokens"
    /\ \E ok \in BOOLEAN :
          IF ok
             THEN /\ tok' = [tok EXCEPT ![t] = "fresh"]
                  /\ pc' = [pc EXCEPT ![t] = "kws"]
                  /\ UNCHANGED why
             ELSE /\ pc' = [pc EXCEPT ![t] = OnTokenError(t)]
                  /\ why' = [why EXCEPT ![t] = "tokens"]
                  /\ UNCHANGED tok
    /\ UNCHANGED <<should_exit, exit_status, attempt, ws_handler, gen,
                   connected, rcount, backoff_time, selfToken, feedSt,
                   kwsTok, pendingClose, waits, succeeded, gave_up,
                   initFailed, opens, drops>>
    /\ UNCHANGED tickVars
    /\ UNCHANGED <<storeVars, readerVars, updaterVars>>
    /\ UNCHANGED <<obsVars, shutVars, calcVars>>

\* _connect: self.kws = KiteTicker(access_token=...), the callbacks,
\* self.kws.connect(threaded=True). The feed it replaces is not closed.
Kws(t) ==
    /\ Alive
    /\ pc[t] = "kws"
    /\ kwsTok' = FeedToken(t)
    /\ feedSt' = "connecting"
    /\ pendingClose' = FALSE
    /\ tok' = [tok EXCEPT ![t] = "none"]
    /\ pc' = [pc EXCEPT ![t] = "wait"]
    /\ UNCHANGED <<should_exit, exit_status, attempt, ws_handler, gen,
                   connected, rcount, backoff_time, selfToken, why, waits,
                   succeeded, gave_up, initFailed, opens, drops>>
    /\ UNCHANGED tickVars
    /\ UNCHANGED <<storeVars, readerVars, updaterVars>>
    /\ UNCHANGED <<obsVars, shutVars, calcVars>>

\* _connect: the wait loop ends and "if not self.connected" finds the
\* connection up
WaitConnected(t) ==
    /\ Alive
    /\ pc[t] = "wait"
    /\ connected
    /\ pc' = [pc EXCEPT ![t] = "reset_count"]
    /\ UNCHANGED <<should_exit, exit_status, attempt, ws_handler, gen,
                   connected, rcount, backoff_time, selfToken, feedSt,
                   kwsTok, pendingClose, tok, why, waits, succeeded, gave_up,
                   initFailed, opens, drops>>
    /\ UNCHANGED tickVars
    /\ UNCHANGED <<storeVars, readerVars, updaterVars>>
    /\ UNCHANGED <<obsVars, shutVars, calcVars>>

\* _connect: self._reconnect_count = 0
ResetCount(t) ==
    /\ Alive
    /\ pc[t] = "reset_count"
    /\ rcount' = 0
    /\ succeeded' = TRUE
    /\ waits' = <<>>
    /\ pc' = [pc EXCEPT ![t] = "reset_backoff"]
    /\ UNCHANGED <<should_exit, exit_status, attempt, ws_handler, gen,
                   connected, backoff_time, selfToken, feedSt, kwsTok,
                   pendingClose, tok, why, gave_up, initFailed, opens, drops>>
    /\ UNCHANGED tickVars
    /\ UNCHANGED <<storeVars, readerVars, updaterVars>>
    /\ UNCHANGED <<obsVars, shutVars, calcVars>>

\* _connect: self.backoff_time = 5, and _connect returns
ResetBackoff(t) ==
    /\ Alive
    /\ pc[t] = "reset_backoff"
    /\ backoff_time' = BackoffOnSuccess(backoff_time)
    /\ Returns(t)
    /\ UNCHANGED <<should_exit, exit_status, attempt, gen, connected, rcount,
                   selfToken, feedSt, kwsTok, pendingClose, tok, why, waits,
                   succeeded, gave_up, initFailed, opens, drops>>
    /\ UNCHANGED tickVars
    /\ UNCHANGED <<storeVars, readerVars, updaterVars>>
    /\ UNCHANGED <<obsVars, shutVars, calcVars>>

\* _connect: 30 s pass with self.connected false: "WebSocket connection
\* timeout" is raised and caught, _handle_reconnect is called
WaitTimeout(t) ==
    /\ Alive
    /\ pc[t] = "wait"
    /\ ~connected
    /\ pc' = [pc EXCEPT ![t] = "hr"]
    /\ UNCHANGED <<should_exit, exit_status, attempt, ws_handler, gen,
                   connected, rcount, backoff_time, selfToken, feedSt,
                   kwsTok, pendingClose, tok, why, waits, succeeded, gave_up,
                   initFailed, opens, drops>>
    /\ UNCHANGED tickVars
    /\ UNCHANGED <<storeVars, readerVars, updaterVars>>
    /\ UNCHANGED <<obsVars, shutVars, calcVars>>

\* _handle_reconnect: "if self._reconnect_count < self.MAX_RECONNECTS";
\* the else branch only reports, and the call returns
HandleReconnect(t) ==
    /\ Alive
    /\ pc[t] = "hr"
    /\ IF CanReconnect(rcount)
          THEN /\ pc' = [pc EXCEPT ![t] = "hr_count"]
               /\ UNCHANGED <<gave_up, ws_handler>>
          ELSE /\ gave_up' = IF gave_up = 0 THEN gen ELSE gave_up
               /\ Returns(t)
    /\ why' = [why EXCEPT ![t] = IF CanReconnect(rcount) THEN why[t] ELSE "none"]
    /\ UNCHANGED <<should_exit, exit_status, attempt, gen, connected, rcount,
                   backoff_time, selfToken, feedSt, kwsTok, pendingClose,
                   tok, waits, succeeded, initFailed, opens, drops>>
    /\ UNCHANGED tickVars
    /\ UNCHANGED <<storeVars, readerVars, updaterVars>>
    /\ UNCHANGED <<obsVars, shutVars, calcVars>>

\* _handle_reconnect: self._reconnect_count += 1
IncrementCount(t) ==
    /\ Alive
    /\ pc[t] = "hr_count"
    /\ rcount' = rcount + 1
    /\ why' = [why EXCEPT ![t] = "none"]
    /\ pc' = [pc EXCEPT ![t] = "hr_backoff"]
    /\ UNCHANGED <<should_exit, exit_status, attempt, ws_handler, gen,
                   connected, backoff_time, selfToken, feedSt, kwsTok,
                   pendingClose, tok, waits, succeeded, gave_up, initFailed,
                   opens, drops>>
    /\ UNCHANGED tickVars
    /\ UNCHANGED <<storeVars, readerVars, updaterVars>>
    /\ UNCHANGED <<obsVars, shutVars, calcVars>>

\* _handle_reconnect: self.backoff_time = min(300, self.backoff_time * 2)
DoubleBackoff(t) ==
    /\ Alive
    /\ pc[t] = "hr_backoff"
    /\ backoff_time' = NextBackoff(backoff_time)
    /\ pc' = [pc EXCEPT ![t] = "sleep"]
    /\ UNCHANGED <<should_exit, exit_status, attempt, ws_handler, gen,
                   connected, rcount, selfToken, feedSt, kwsTok,
                   pendingClose, tok, why, waits, succeeded, gave_up,
                   initFailed, opens, drops>>
    /\ UNCHANGED tickVars
    /\ UNCHANGED <<storeVars, readerVars, updaterVars>>
    /\ UNCHANGED <<obsVars, shutVars, calcVars>>

\* _handle_reconnect: time.sleep(self.backoff_time), then self._connect()
Sleep(t) ==
    /\ Alive
    /\ pc[t] = "sleep"
    /\ waits' = IF succeeded THEN waits ELSE Append(waits, backoff_time)
    /\ pc' = [pc EXCEPT ![t] = "tokens"]
    /\ UNCHANGED <<should_exit, exit_status, attempt, ws_handler, gen,
                   connected, rcount, backoff_time, selfToken, feedSt,
                   kwsTok, pendingClose, tok, why, succeeded, gave_up,
                   initFailed, opens, drops>>
    /\ UNCHANGED tickVars
    /\ UNCHANGED <<storeVars, readerVars, updaterVars>>
    /\ UNCHANGED <<obsVars, shutVars, calcVars>>

-----------------------------------------------------------------------------
\* The feed (KiteTicker) and its callbacks on the handler

\* _on_connect: self.connected = True, then the subscriptions; an
\* exception in them is caught and _handle_reconnect is called
OnConnect ==
    /\ Alive
    /\ feedSt = "connecting"
    /\ opens < MaxOpens
    /\ opens' = opens + 1
    /\ feedSt' = "open"
    /\ connected' = TRUE
    /\ \E raised \in BOOLEAN :
          IF raised
             THEN /\ pc["feed"] = "idle"
                  /\ pc' = [pc EXCEPT !["feed"] = "hr"]
             ELSE UNCHANGED pc
    /\ UNCHANGED <<should_exit, exit_status, attempt, ws_handler, gen,
                   rcount, backoff_time, selfToken, kwsTok, pendingClose,
                   tok, why, waits, succeeded, gave_up, initFailed, drops>>
    /\ UNCHANGED tickVars
    /\ UNCHANGED <<storeVars, readerVars, updaterVars>>
    /\ UNCHANGED <<obsVars, shutVars, calcVars>>

\* The connection of self.kws ends. A clean close delivers on_close; an
\* unclean one delivers on_error and then on_close. _on_error and
\* _on_close both set self.connected = False and call _handle_reconnect.
Disconnect ==
    /\ Alive
    /\ feedSt \in {"connecting", "open"}
    /\ pc["feed"] = "idle"
    /\ drops < MaxDrops
    /\ drops' = drops + 1
    /\ feedSt' = "closed"
    /\ connected' = FALSE
    /\ \E unclean \in BOOLEAN : pendingClose' = unclean
    /\ pc' = [pc EXCEPT !["feed"] = "hr"]
    /\ UNCHANGED <<should_exit, exit_status, attempt, ws_handler, gen,
                   rcount, backoff_time, selfToken, kwsTok, tok, why, waits,
                   succeeded, gave_up, initFailed, opens>>
    /\ UNCHANGED tickVars
    /\ UNCHANGED <<storeVars, readerVars, updaterVars>>
    /\ UNCHANGED <<obsVars, shutVars, calcVars>>

\* _on_close, delivered after _on_error has returned
OnClose ==
    /\ Alive
    /\ pendingClose
    /\ pc["feed"] = "idle"
    /\ pendingClose' = FALSE
    /\ connected' = FALSE
    /\ pc' = [pc EXCEPT !["feed"] = "hr"]
    /\ UNCHANGED <<should_exit, exit_status, attempt, ws_handler, gen,
                   rcount, backoff_time, selfToken, feedSt, kwsTok, tok, why,
                   waits, succeeded, gave_up, initFailed, opens, drops>>
    /\ UNCHANGED tickVars
    /\ UNCHANGED <<storeVars, readerVars, updaterVars>>
    /\ UNCHANGED <<obsVars, shutVars, calcVars>>

-----------------------------------------------------------------------------
Next ==
    \/ Signal
    \/ RunMonitorStart
    \/ IcAttempt
    \/ IcExcept
    \/ MonitorLoop
    \/ Finally
    \/ \E t \in Threads : Tokens(t)
    \/ \E t \in Threads : Kws(t)
    \/ \E t \in Threads : WaitConnected(t)
    \/ \E t \in Threads : ResetCount(t)
    \/ \E t \in Threads : ResetBackoff(t)
    \/ \E t \in Threads : WaitTimeout(t)
    \/ \E t \in Threads : HandleReconnect(t)
    \/ \E t \in Threads : IncrementCount(t)
    \/ \E t \in Threads : DoubleBackoff(t)
    \/ \E t \in Threads : Sleep(t)
    \/ OnConnect
    \/ Disconnect
    \/ OnClose

Spec == Init /\ [][Next]_vars

-----------------------------------------------------------------------------
\* _subscribe_options: the strikes around the money

\* round(p / g) for integers p >= 0, g > 0: Python rounds halves to even
RoundDiv(p, g) ==
    LET q == p \div g
        r == p % g
    IN IF 2 * r < g THEN q
       ELSE IF 2 * r > g THEN q + 1
       ELSE IF q % 2 = 0 THEN q ELSE q + 1

StrikeGap(spot_symbol) ==
    IF spot_symbol \in {NIFTY_BANK, SENSEX} THEN 100 ELSE 50
AtmStrikeBug(spot_price, strike_gap) == (spot_price \div strike_gap) * strike_gap
AtmStrike(spot_price, strike_gap) == RoundDiv(spot_price, strike_gap) * strike_gap
Strikes(atm_strike, strike_gap) ==
    [i \in 1..11 |-> atm_strike + ((i - 1) - 5) * strike_gap]

\* the rows of a set in some order (the order of the response)
RECURSIVE SeqOf(_)
SeqOf(S) ==
    IF S = {} THEN <<>>
    ELSE LET x == CHOOSE y \in S : \A z \in S : y.token <= z.token
         IN <<x>> \o SeqOf(S \ {x})

\* the rows _subscribe_options adds for one index, strike by strike
RECURSIVE Selected(_, _, _)
Selected(rows, strikes, i) ==
    IF i > Len(strikes) THEN <<>>
    ELSE SeqOf({r \in rows : r.strike = strikes[i]}) \o Selected(rows, strikes, i + 1)

\* _subscribe_options over the spot price of NIFTY 50 in market_data
OptionsToAdd(rows, md) ==
    IF NIFTY_50 \in DOMAIN md /\ md[NIFTY_50].last_price > 0
       THEN Selected(rows,
                     Strikes(AtmStrike(md[NIFTY_50].last_price, StrikeGap(NIFTY_50)),
                             StrikeGap(NIFTY_50)), 1)
       ELSE <<>>

-----------------------------------------------------------------------------
\* _subscribe_futures, as a function of what the two fetches return.
\* got[e] is the set of contracts kept for exchange e; raises is 0, or the
\* number of the exchange whose fetch raises. The handler of that
\* exception calls print(..., exc_info=True), a TypeError, and so does the
\* outer handler: the exception leaves _subscribe_futures and the
\* subscribe call is not reached.

\* the exchanges whose contracts are added
Fetched(raises) == IF raises = 0 THEN {1, 2} ELSE 1..(raises - 1)

FuturesFound(got, raises) == UNION {got[Exchanges[e]] : e \in Fetched(raises)}

\* self.token_symbol_map[str(token)] = excel_symbol
MapFutureBug(m, token, excel_symbol) == m
MapFuture(m, token, excel_symbol) == Put(m, token, excel_symbol)

RECURSIVE MapFutures(_, _)
MapFutures(m, rows) ==
    IF rows = <<>> THEN m
    ELSE MapFutures(MapFuture(m, rows[1].token, rows[1].excel_symbol), Tail(rows))

\* self.last_traded_volumes = {} and then [excel_symbol] = 0 per contract
ResetVolumes(rows) == [s \in {r.excel_symbol : r \in rows} |-> 0]

\* tokens of a subscribe call that have no entry in the map
Unmapped(tokens, m) == {t \in tokens : t \notin DOMAIN m}

\* _on_connect: self.connected = True; the spot tokens are subscribed
FeedConnect ==
    /\ pc["feed"] = "idle"
    /\ tpc \in {"off", "idle"}
    /\ opc \in {"off", "done"}
    /\ connects < MaxConnects
    /\ connects' = connects + 1
    /\ connected' = TRUE
    /\ feedSt' = "open"
    /\ subscribed' = subscribed \cup {i.token : i \in SPOT_TOKENS}
    /\ sentUnmapped' = sentUnmapped
                          \cup Unmapped({i.token : i \in SPOT_TOKENS}, token_symbol_map)
    /\ tpc' = "futures"
    /\ UNCHANGED <<token_symbol_map, market_data, futures_data, options_data,
                   has_ltv, ltv, published, remaining, last_tick, outcome,
                   opc, optTodo, options_tokens, batches>>
    /\ UNCHANGED <<pc, should_exit, exit_status, attempt, ws_handler, gen,
                   rcount, backoff_time, selfToken, kwsTok, pendingClose,
                   tok, why, waits, succeeded, gave_up, initFailed, opens,
                   drops>>
    /\ UNCHANGED <<storeVars, readerVars, updaterVars>>
    /\ UNCHANGED <<obsVars, shutVars, calcVars>>

\* _on_connect: self._subscribe_futures(); when it returns the thread
\* delayed_options_subscription is started, when it raises _on_connect's
\* except clause calls _handle_reconnect instead
SubscribeFutures ==
    /\ tpc = "futures"
    /\ \E nfo \in SUBSET FuturesRows.NFO, bfo \in SUBSET FuturesRows.BFO, raises \in 0..2 :
          LET rows == SeqOf(FuturesFound([NFO |-> nfo, BFO |-> bfo], raises))
              tokens == {rows[i].token : i \in 1..Len(rows)}
              m == MapFutures(token_symbol_map, rows)
              sent == raises = 0 /\ rows # <<>>
          IN /\ has_ltv' = TRUE
             /\ ltv' = ResetVolumes({rows[i] : i \in 1..Len(rows)})
             /\ token_symbol_map' = m
             /\ subscribed' = IF sent THEN subscribed \cup tokens ELSE subscribed
             /\ sentUnmapped' = IF sent THEN sentUnmapped \cup Unmapped(tokens, m)
                                        ELSE sentUnmapped
             /\ opc' = IF raises = 0 THEN "sleep" ELSE opc
             /\ pc' = IF raises = 0 THEN pc ELSE [pc EXCEPT !["feed"] = "hr"]
    /\ tpc' = "idle"
    /\ UNCHANGED <<market_data, futures_data, options_data, published,
                   remaining, last_tick, outcome, optTodo, options_tokens,
                   connects, batches>>
    /\ UNCHANGED <<should_exit, exit_status, attempt, ws_handler, gen,
                   connected, rcount, backoff_time, selfToken, feedSt,
                   kwsTok, pendingClose, tok, why, waits, succeeded, gave_up,
                   initFailed, opens, drops>>
    /\ UNCHANGED <<storeVars, readerVars, updaterVars>>
    /\ UNCHANGED <<obsVars, shutVars, calcVars>>

\* delayed_options_subscription: after its sleep, "if self.market_data"
\* calls _subscribe_options, which fetches the instruments and selects the
\* rows around the money. A fetch that fails or raises adds nothing, as a
\* response without matching rows.
OptionsWake ==
    /\ opc = "sleep"
    /\ IF market_data = EmptyMap
          THEN /\ opc' = "done"
               /\ UNCHANGED <<optTodo, options_tokens>>
          ELSE \E rows \in SUBSET OptionRows :
                  /\ optTodo' = OptionsToAdd(rows, market_data)
                  /\ options_tokens' = <<>>
                  /\ opc' = "add"
    /\ optCalls' = IF market_data = EmptyMap THEN optCalls ELSE optCalls + 1
    /\ UNCHANGED <<token_symbol_map, market_data, futures_data, options_data,
                   has_ltv, ltv, subscribed, sentUnmapped, published,
                   remaining, last_tick, outcome, tpc, connects, batches>>
    /\ UNCHANGED connVars
    /\ UNCHANGED <<storeVars, readerVars, updaterVars>>
    /\ UNCHANGED <<lastRecv, shutVars, calcVars>>

\* self.token_symbol_map[str(token)] = info['symbol']
MapOption(m, token, symbol) == Put(m, token, symbol)

\* _subscribe_options: options_tokens.append(token) and the entry of the
\* token in token_symbol_map, for one selected row
OptionsAdd ==
    /\ opc = "add"
    /\ optTodo # <<>>
    /\ options_tokens' = Append(options_tokens, Head(optTodo).token)
    /\ token_symbol_map' = MapOption(token_symbol_map, Head(optTodo).token,
                                     Head(optTodo).symbol)
    /\ optTodo' = Tail(optTodo)
    /\ UNCHANGED <<market_data, futures_data, options_data, has_ltv, ltv,
                   subscribed, sentUnmapped, published, remaining, last_tick,
                   outcome, tpc, opc, connects, batches>>
    /\ UNCHANGED connVars
    /\ UNCHANGED <<storeVars, readerVars, updaterVars>>
    /\ UNCHANGED <<obsVars, shutVars, calcVars>>

\* _subscribe_options: "if options_tokens": self.kws.subscribe(options_tokens)
OptionsSubscribe ==
    /\ opc = "add"
    /\ optTodo = <<>>
    /\ LET tokens == {options_tokens[i] : i \in 1..Len(options_tokens)}
       IN /\ subscribed' = subscribed \cup tokens
          /\ sentUnmapped' = sentUnmapped \cup Unmapped(tokens, token_symbol_map)
    /\ opc' = "done"
    /\ UNCHANGED <<token_symbol_map, market_data, futures_data, options_data,
                   has_ltv, ltv, published, remaining, last_tick, outcome,
                   tpc, optTodo, options_tokens, connects, batches>>
    /\ UNCHANGED connVars
    /\ UNCHANGED <<storeVars, readerVars, updaterVars>>
    /\ UNCHANGED <<obsVars, shutVars, calcVars>>

-----------------------------------------------------------------------------
\* _on_ticks

RECURSIVE Sum(_)
Sum(q) == IF q = <<>> THEN 0 ELSE Head(q) + Sum(Tail(q))

\* change_percent, a quotient kept as <<numerator, denominator>>: a
\* denominator of 0 is the division that raises ZeroDivisionError
ChangePercentBug(last_price, change) == <<change * 100, last_price - change>>
ChangePercent(last_price, change) ==
    IF last_price # change
       THEN <<change * 100, last_price - change>>
       ELSE <<0, 1>>

\* the entry _on_ticks stores, as far as the claims read it
SpotEntry(tick) ==
    [token |-> tick.instrument_token, last_price |-> tick.last_price,
     change |-> tick.change,
     change_percent |-> ChangePercent(tick.last_price, tick.change),
     volume |-> tick.volume]
FuturesEntry(tick, volume) ==
    [token |-> tick.instrument_token, last_price |-> tick.last_price,
     change |-> tick.change,
     change_percent |-> ChangePercent(tick.last_price, tick.change),
     volume |-> volume]
OptionEntry(tick, strike, option_type) ==
    [token |-> tick.instrument_token, strike |-> strike,
     option_type |-> option_type, last_price |-> tick.last_price,
     change |-> tick.change,
     change_percent |-> ChangePercent(tick.last_price, tick.change),
     volume |-> tick.volume]

\* the futures branch: self.last_traded_volumes after the tick
VolumesAfter(v, symbol, tick) ==
    IF tick.trades # <<>>
       THEN Put(v, symbol, Get(v, symbol, 0) + Sum(tick.trades))
       ELSE IF tick.volume > Get(v, symbol, 0)
               THEN Put(v, symbol, tick.volume)
               ELSE v

\* the futures branch raises: the attribute last_traded_volumes does not
\* exist (AttributeError), or the volume compared is not a number (TypeError)
FuturesRaises(tick) ==
    \/ ~has_ltv
    \/ tick.trades = <<>> /\ tick.volume = -1

\* the options branch raises inside its own try: float('') (ValueError)
OptionsRaises(symbol) == IndexName(symbol) # <<>> /\ Strike(symbol) = <<>>

\* whether an exception of the options branch leaves the for loop: the
\* branch has its own "except Exception", which only prints
OptionsExceptBug(raises) == raises
OptionsExcept(raises) == FALSE

\* the branch of the if / elif chain a mapped tick takes
BranchBug(token, symbol) == "spot"
Branch(token, symbol) ==
    IF token \in index_tokens THEN "spot"
    ELSE IF EndsWith(symbol, FUT) THEN "futures"
    ELSE IF Contains(symbol, CE) \/ Contains(symbol, PE) THEN "options"
    ELSE "none"

\* an exception leaves the for loop at this tick: tick['instrument_token']
\* (KeyError), the futures branch, or the options branch
TickRaises(tick) ==
    \/ tick.instrument_token = 0
    \/ /\ tick.instrument_token \in DOMAIN token_symbol_map
       /\ LET symbol == token_symbol_map[tick.instrument_token]
              branch == Branch(tick.instrument_token, symbol)
          IN \/ branch = "futures" /\ FuturesRaises(tick)
             \/ branch = "options" /\ OptionsExcept(OptionsRaises(symbol))

\* what _on_ticks prints about a tick it stores nothing for: "Unknown
\* token", "Could not determine index name", "Error processing options tick"
Printed(tick) ==
    IF tick.instrument_token \notin DOMAIN token_symbol_map
       THEN <<"unknown_token">>
       ELSE LET symbol == token_symbol_map[tick.instrument_token]
            IN IF Branch(tick.instrument_token, symbol) # "options" THEN <<>>
               ELSE IF IndexName(symbol) = <<>> THEN <<"no_index">>
               ELSE IF OptionsRaises(symbol) THEN <<"options_error">>
               ELSE <<>>

\* The feed delivers a batch: _on_ticks is entered
Receive ==
    /\ pc["feed"] = "idle"
    /\ tpc = "idle"
    /\ batches < MaxBatches
    /\ batches' = batches + 1
    /\ \E n \in 1..MaxBatchLen : remaining' = n
    /\ outcome' = NoBatch
    /\ tpc' = "ticks"
    /\ UNCHANGED <<last_tick, token_symbol_map, market_data, futures_data,
                   options_data, has_ltv, ltv, subscribed, sentUnmapped,
                   published, opc, optTodo, options_tokens, connects>>
    /\ UNCHANGED connVars
    /\ UNCHANGED <<storeVars, readerVars, updaterVars>>
    /\ UNCHANGED <<obsVars, shutVars, calcVars>>

\* the holder of the lock when a "with self._lock" block is left
UnlockedBug(holder) == holder
Unlocked(holder) == "free"

\* the ticks of a batch that follow the one that raises: the feed has
\* delivered them, the for loop does not reach them
Unreached(n) == IF n = 0 THEN {<<>>} ELSE [1..n -> Ticks]

\* the price fields of the last tick delivered, per instrument the handler
\* has in its token map
Received(seen, tick, known) ==
    IF tick.instrument_token \in known
       THEN Put(seen, tick.instrument_token, <<tick.last_price, tick.change>>)
       ELSE seen
RECURSIVE ReceivedAll(_, _, _)
ReceivedAll(seen, ticks, known) ==
    IF Len(ticks) = 0 THEN seen
    ELSE ReceivedAll(Received(seen, ticks[1], known),
                     [i \in 1..(Len(ticks) - 1) |-> ticks[i + 1]], known)

\* _on_ticks: one turn of "for tick in ticks", up to "with self._lock".
\* tick['instrument_token'] of a tick without the field raises KeyError,
\* which the outer except clause catches and logs: the remaining ticks
\* and the update of Excel are skipped. A tick whose token is not in
\* token_symbol_map is printed as unknown. Any other tick reaches the
\* with statement, which takes the lock when it is free.
OnTick ==
    /\ tpc = "ticks"
    /\ remaining > 0
    /\ \E tick \in Ticks :
       /\ last_tick' = tick
       /\ IF tick.instrument_token = 0
             THEN /\ outcome' = [outcome EXCEPT !.raised = TRUE,
                                                !.unreached = remaining - 1]
                  /\ remaining' = 0
                  /\ tpc' = "idle"
                  /\ \E rest \in Unreached(remaining - 1) :
                        lastRecv' = ReceivedAll(lastRecv, rest,
                                                DOMAIN token_symbol_map)
                  /\ UNCHANGED lock
             ELSE IF tick.instrument_token \notin DOMAIN token_symbol_map
             THEN /\ outcome' = [outcome EXCEPT !.log = @ \o Printed(tick)]
                  /\ remaining' = remaining - 1
                  /\ UNCHANGED <<tpc, lock, lastRecv>>
             ELSE /\ lock' = IF lock = "free" THEN "feed" ELSE lock
                  /\ tpc' = IF lock = "free" THEN "locked" ELSE "lock"
                  /\ lastRecv' = Received(lastRecv, tick, DOMAIN token_symbol_map)
                  /\ UNCHANGED <<outcome, remaining>>
    /\ UNCHANGED <<token_symbol_map, market_data, futures_data, options_data,
                   has_ltv, ltv, subscribed, sentUnmapped, published, opc,
                   optTodo, options_tokens, connects, batches, applied,
                   views>>
    /\ UNCHANGED connVars
    /\ UNCHANGED <<readerVars, updaterVars>>
    /\ UNCHANGED <<optCalls, shutVars, calcVars>>

\* _on_ticks: "with self._lock" when another thread held the lock
TickLock ==
    /\ tpc = "lock"
    /\ lock = "free"
    /\ lock' = "feed"
    /\ tpc' = "locked"
    /\ UNCHANGED <<token_symbol_map, market_data, futures_data, options_data,
                   has_ltv, ltv, subscribed, sentUnmapped, published,
                   remaining, last_tick, outcome, opc, optTodo,
                   options_tokens, connects, batches, applied, views>>
    /\ UNCHANGED <<connVars, readerVars, updaterVars>>
    /\ UNCHANGED <<obsVars, shutVars, calcVars>>

\* the entries copies of a map share with the map once the entry of key
\* has been assigned a new dictionary
Unshared(shared, map, key) == [shared EXCEPT ![map] = @ \ {key}]

\* _on_ticks: the body of "with self._lock" for the tick taken, and the
\* release of the lock when the block is left, by its end or by an
\* exception. An exception of the futures branch leaves the for loop.
Upsert ==
    /\ tpc = "locked"
    /\ LET tick == last_tick
           token == tick.instrument_token
           symbol == token_symbol_map[token]
           branch == Branch(token, symbol)
           stores == /\ branch = "options"
                     /\ IndexName(symbol) # <<>>
                     /\ ~OptionsRaises(symbol)
           key == <<IndexName(symbol)[1], Strike(symbol)[1], OptionType(symbol)>>
       IN
       IF TickRaises(tick)
          THEN /\ outcome' = [outcome EXCEPT !.raised = TRUE,
                                             !.unreached = remaining - 1]
               /\ remaining' = 0
               /\ tpc' = "idle"
               /\ \E rest \in Unreached(remaining - 1) :
                     lastRecv' = ReceivedAll(lastRecv, rest,
                                             DOMAIN token_symbol_map)
               /\ UNCHANGED <<market_data, futures_data, options_data, ltv,
                              applied, rdShared>>
          ELSE /\ remaining' = remaining - 1
               /\ outcome' = [outcome EXCEPT !.log = @ \o Printed(tick)]
               /\ tpc' = "ticks"
               /\ UNCHANGED lastRecv
               /\ market_data' =
                     IF branch = "spot"
                        THEN Put(market_data, symbol, SpotEntry(tick))
                        ELSE market_data
               /\ ltv' =
                     IF branch = "futures"
                        THEN VolumesAfter(ltv, symbol, tick)
                        ELSE ltv
               /\ futures_data' =
                     IF branch = "futures"
                        THEN Put(futures_data, symbol,
                                 FuturesEntry(tick, Get(ltv', symbol, 0)))
                        ELSE futures_data
               /\ options_data' =
                     IF stores
                        THEN Put(options_data, key,
                                 OptionEntry(tick, Strike(symbol)[1],
                                             OptionType(symbol)))
                        ELSE options_data
               /\ applied' =
                     IF branch = "spot"
                        THEN [applied EXCEPT !.market = @ \cup {token}]
                     ELSE IF branch = "futures"
                        THEN [applied EXCEPT !.futures = @ \cup {token}]
                     ELSE IF stores
                        THEN [applied EXCEPT !.options = @ \cup {token}]
                     ELSE applied
               /\ rdShared' =
                     IF branch = "spot"
                        THEN Unshared(rdShared, "market", symbol)
                     ELSE IF stores
                        THEN Unshared(rdShared, "options", key)
                     ELSE rdShared
    /\ lock' = Unlocked(lock)
    /\ UNCHANGED <<token_symbol_map, has_ltv, subscribed, sentUnmapped,
                   published, last_tick, opc, optTodo, options_tokens,
                   connects, batches, views>>
    /\ UNCHANGED connVars
    /\ UNCHANGED <<rpc, rd, rdCount, reads, cpc, chains>>
    /\ UNCHANGED updaterVars
    /\ UNCHANGED <<optCalls, shutVars, calcVars>>

\* get_market_data, get_futures_data, get_options_data: "with self._lock:
\* return self.<map>.copy()", the lock taken, the map copied and the lock
\* released. The copy is a new dictionary over the entries of the map.
CopyBug(m) == EmptyMap
Copy(m) == m

\* _on_ticks, after the loop: market_data = self.get_market_data()
GetMarketData ==
    /\ tpc = "ticks"
    /\ remaining = 0
    /\ lock = "free"
    /\ views' = <<Copy(market_data)>>
    /\ tpc' = "get_futures"
    /\ UNCHANGED <<token_symbol_map, market_data, futures_data, options_data,
                   has_ltv, ltv, subscribed, sentUnmapped, published,
                   remaining, last_tick, outcome, opc, optTodo,
                   options_tokens, connects, batches, lock, applied>>
    /\ UNCHANGED <<connVars, readerVars, updaterVars>>
    /\ UNCHANGED <<obsVars, shutVars, calcVars>>

\* _on_ticks: futures_data = self.get_futures_data()
GetFuturesData ==
    /\ tpc = "get_futures"
    /\ lock = "free"
    /\ views' = Append(views, Copy(futures_data))
    /\ tpc' = "get_options"
    /\ UNCHANGED <<token_symbol_map, market_data, futures_data, options_data,
                   has_ltv, ltv, subscribed, sentUnmapped, published,
                   remaining, last_tick, outcome, opc, optTodo,
                   options_tokens, connects, batches, lock, applied>>
    /\ UNCHANGED <<connVars, readerVars, updaterVars>>
    /\ UNCHANGED <<obsVars, shutVars, calcVars>>

\* _on_ticks: options_data = self.get_options_data()
GetOptionsData ==
    /\ tpc = "get_options"
    /\ lock = "free"
    /\ views' = Append(views, Copy(options_data))
    /\ tpc' = "update"
    /\ UNCHANGED <<token_symbol_map, market_data, futures_data, options_data,
                   has_ltv, ltv, subscribed, sentUnmapped, published,
                   remaining, last_tick, outcome, opc, optTodo,
                   options_tokens, connects, batches, lock, applied>>
    /\ UNCHANGED <<connVars, readerVars, updaterVars>>
    /\ UNCHANGED <<obsVars, shutVars, calcVars>>

\* update_data: "if current_time - self._last_update < self.update_interval:
\* return"
RateLimitedBug(current_time, last) == FALSE
RateLimited(current_time, last) == current_time - last < update_interval

\* self._queue.put has to wait: queue.Queue() has no maximal size
QueueFullBug(q) == Len(q) >= 1
QueueFull(q) == FALSE

\* _on_ticks: self.excel_updater.update_data(market_data, futures_data,
\* options_data). update_data returns at once when the last put is less
\* than update_interval ago; otherwise it sets _last_update and puts the
\* three views on the queue.
Publish ==
    /\ tpc = "update"
    /\ published' = views
    /\ views' = <<>>
    /\ calledAt' = <<now>>
    /\ IF RateLimited(now, last_update)
          THEN /\ tpc' = "idle"
               /\ outcome' = [outcome EXCEPT !.published = TRUE]
               /\ UNCHANGED <<last_update, queue, enqueuedAt, handed>>
          ELSE /\ last_update' = now
               /\ IF QueueFull(queue)
                     THEN /\ tpc' = "put"
                          /\ UNCHANGED <<outcome, queue, enqueuedAt, handed>>
                     ELSE /\ queue' = Append(queue, views)
                          /\ enqueuedAt' = <<now>>
                          /\ handed' = handed \cup {views}
                          /\ tpc' = "idle"
                          /\ outcome' = [outcome EXCEPT !.published = TRUE]
    /\ UNCHANGED <<token_symbol_map, market_data, futures_data, options_data,
                   has_ltv, ltv, subscribed, sentUnmapped, remaining,
                   last_tick, opc, optTodo, options_tokens, connects,
                   batches, lock, applied>>
    /\ UNCHANGED <<now, wpc, cur, sink>>
    /\ UNCHANGED <<connVars, readerVars>>
    /\ UNCHANGED <<obsVars, shutVars, calcVars>>

-----------------------------------------------------------------------------
\* The handler from the delivery of on_connect on: the connection is the
\* one the first _connect call of the first handler has asked for, and
\* the static map is any of those considered

AwaitingConnect ==
    /\ pc = [t \in Threads |-> IF t = "main" THEN "wait" ELSE "idle"]
    /\ should_exit = FALSE
    /\ exit_status = <<>>
    /\ attempt = 1
    /\ ws_handler = 0
    /\ gen = 1
    /\ connected = FALSE
    /\ rcount = 0
    /\ backoff_time = INITIAL_BACKOFF
    /\ selfToken = "init"
    /\ feedSt = "connecting"
    /\ kwsTok = "fresh"
    /\ pendingClose = FALSE
    /\ tok = [t \in Threads |-> "none"]
    /\ why = [t \in Threads |-> "none"]
    /\ waits = <<>>
    /\ succeeded = FALSE
    /\ gave_up = 0
    /\ initFailed = FALSE
    /\ opens = 0
    /\ drops = 0

InitTicks ==
    /\ AwaitingConnect
    /\ optCalls = 0
    /\ lastRecv = EmptyMap
    /\ stop_event = FALSE
    /\ CalcOff
    /\ \E extra \in StaticExtras : token_symbol_map = SYMBOL_TOKEN_MAP(extra)
    /\ market_data = EmptyMap
    /\ futures_data = EmptyMap
    /\ options_data = EmptyMap
    /\ has_ltv = FALSE
    /\ ltv = EmptyMap
    /\ subscribed = {}
    /\ sentUnmapped = {}
    /\ published = <<>>
    /\ remaining = 0
    /\ last_tick = NoTick
    /\ outcome = NoBatch
    /\ tpc = "off"
    /\ opc = "off"
    /\ optTodo = <<>>
    /\ options_tokens = <<>>
    /\ connects = 0
    /\ batches = 0
    /\ lock = "free"
    /\ applied = [market |-> {}, futures |-> {}, options |-> {}]
    /\ views = <<>>
    /\ rpc = "off"
    /\ rd = NoCopies
    /\ rdShared = NoShares
    /\ rdCount = 0
    /\ reads = 0
    /\ cpc = "off"
    /\ chains = 0
    /\ now = update_interval
    /\ last_update = 0
    /\ queue = <<>>
    /\ wpc = "init"
    /\ cur = <<>>
    /\ sink = <<>>
    /\ enqueuedAt = <<>>
    /\ calledAt = <<>>
    /\ handed = {}

NextTicks ==
    \/ FeedConnect
    \/ SubscribeFutures
    \/ OptionsWake
    \/ OptionsAdd
    \/ OptionsSubscribe
    \/ Receive
    \/ OnTick
    \/ Upsert
    \/ GetMarketData
    \/ GetFuturesData
    \/ GetOptionsData
    \/ Publish
    \/ HandleReconnect("feed")
    \/ IncrementCount("feed")
    \/ DoubleBackoff("feed")
    \/ Sleep("feed")
    \/ Tokens("feed")
    \/ Kws("feed")
    \/ WaitConnected("feed")
    \/ ResetCount("feed")
    \/ ResetBackoff("feed")

SpecTicks == InitTicks /\ [][NextTicks]_vars

-----------------------------------------------------------------------------
\* The store read while ticks are applied: run_monitor of monitor.py
\* copies the maps on a thread of its own, and _update_options_chain may
\* be called on the handler.

\* Bounds of these runs
MaxReads == 1
MaxChains == 1

\* run_monitor: "if current_time - last_update >= update_interval", and the
\* call websocket_handler.get_market_data() is made
RmCallMarket ==
    /\ rpc = "idle"
    /\ connected
    /\ reads < MaxReads
    /\ reads' = reads + 1
    /\ rdCount' = Cardinality(applied.market)
    /\ rpc' = "get_market"
    /\ UNCHANGED <<rd, rdShared, cpc, chains>>
    /\ UNCHANGED <<connVars, tickVars, storeVars, updaterVars>>
    /\ UNCHANGED <<obsVars, shutVars, calcVars>>

\* get_market_data returns the copy
RmGetMarket ==
    /\ rpc = "get_market"
    /\ lock = "free"
    /\ rd' = [rd EXCEPT !.market = Copy(market_data)]
    /\ rdShared' = [rdShared EXCEPT !.market = DOMAIN market_data]
    /\ rpc' = "mid"
    /\ UNCHANGED <<rdCount, reads, cpc, chains>>
    /\ UNCHANGED <<connVars, tickVars, storeVars, updaterVars>>
    /\ UNCHANGED <<obsVars, shutVars, calcVars>>

\* run_monitor: the call websocket_handler.get_options_data() is made
RmCallOptions ==
    /\ rpc = "mid"
    /\ rdCount' = Cardinality(applied.options)
    /\ rpc' = "get_options"
    /\ UNCHANGED <<rd, rdShared, reads, cpc, chains>>
    /\ UNCHANGED <<connVars, tickVars, storeVars, updaterVars>>
    /\ UNCHANGED <<obsVars, shutVars, calcVars>>

\* get_options_data returns the copy
RmGetOptions ==
    /\ rpc = "get_options"
    /\ lock = "free"
    /\ rd' = [rd EXCEPT !.options = Copy(options_data)]
    /\ rdShared' = [rdShared EXCEPT !.options = DOMAIN options_data]
    /\ rpc' = "update"
    /\ UNCHANGED <<rdCount, reads, cpc, chains>>
    /\ UNCHANGED <<connVars, tickVars, storeVars, updaterVars>>
    /\ UNCHANGED <<obsVars, shutVars, calcVars>>

\* run_monitor: excel_updater.update_data(market_data, options_data) lacks
\* an argument of update_data: the TypeError is caught and logged, the
\* updater is not entered, the thread sleeps and the loop starts again
RmUpdate ==
    /\ rpc = "update"
    /\ rd' = NoCopies
    /\ rdShared' = NoShares
    /\ rpc' = "idle"
    /\ UNCHANGED <<rdCount, reads, cpc, chains>>
    /\ UNCHANGED <<connVars, tickVars, storeVars, updaterVars>>
    /\ UNCHANGED <<obsVars, shutVars, calcVars>>

\* _update_options_chain: the inputs it is called with
ChainInputs == {[symbol |-> NIFTY_50, spot_price |-> 22010]}

\* _update_options_chain: strikes, for num_strikes = 10
ChainStrikes(atm_strike, strike_gap) ==
    {atm_strike + (i - 10) * strike_gap : i \in 0..20}

\* _update_options_chain: pe_symbol = f"{strike}_PE", ce_symbol =
\* f"{strike}_CE". The keys of options_data are f"{index_name}_{strike}_
\* {option_type}" (<<index_name, strike, option_type>>): a key without an
\* index name has the empty name here.
ChainKeyBug(strike, option_type) == <<IndexPrefixes[1], strike, option_type>>
ChainKey(strike, option_type) == << <<>>, strike, option_type>>

\* the entry after pe_data['strike'] = strike, pe_data['option_type'] =
\* ..., pe_data['is_atm'] = ...: the dictionary itself is changed
ChainEntry(e, strike, option_type, is_atm) ==
    [f \in DOMAIN e \cup {"is_atm"} |->
        IF f = "strike" THEN strike
        ELSE IF f = "option_type" THEN option_type
        ELSE IF f = "is_atm" THEN is_atm
        ELSE e[f]]

\* a map of entries after the loop over strikes, for the keys among
\* touched: every entry the loop finds is changed in place
ChainMap(m, touched, atm_strike, strike_gap) ==
    [k \in DOMAIN m |->
        IF k \in touched
              /\ \E x \in ChainStrikes(atm_strike, strike_gap), ty \in {CE, PE} :
                    k = ChainKey(x, ty)
           THEN LET x == CHOOSE y \in ChainStrikes(atm_strike, strike_gap) :
                            \E ty \in {CE, PE} : k = ChainKey(y, ty)
                    ty == CHOOSE z \in {CE, PE} : k = ChainKey(x, z)
                IN ChainEntry(m[k], x, ty, x = atm_strike)
           ELSE m[k]]

\* _update_options_chain: "with self._lock"
ChainLock ==
    /\ cpc = "idle"
    /\ chains < MaxChains
    /\ lock = "free"
    /\ lock' = "chain"
    /\ chains' = chains + 1
    /\ cpc' = "locked"
    /\ UNCHANGED <<applied, views, rpc, rd, rdShared, rdCount, reads>>
    /\ UNCHANGED <<connVars, tickVars, updaterVars>>
    /\ UNCHANGED <<obsVars, shutVars, calcVars>>

\* _update_options_chain: the loop over the strikes, and the release of
\* the lock. A copy of options_data holds the entries of the store, so
\* an entry changed in place is changed in the copy that shares it.
ChainUpdate ==
    /\ cpc = "locked"
    /\ \E in \in ChainInputs :
          LET strike_gap == StrikeGap(in.symbol)
              atm_strike == AtmStrike(in.spot_price, strike_gap)
          IN /\ options_data' = ChainMap(options_data, DOMAIN options_data,
                                         atm_strike, strike_gap)
             /\ rd' = [rd EXCEPT !.options =
                          ChainMap(@, rdShared.options, atm_strike, strike_gap)]
    /\ lock' = Unlocked(lock)
    /\ cpc' = "idle"
    /\ UNCHANGED <<token_symbol_map, market_data, futures_data, has_ltv, ltv,
                   subscribed, sentUnmapped, published, remaining, last_tick,
                   outcome, tpc, opc, optTodo, options_tokens, connects,
                   batches>>
    /\ UNCHANGED <<applied, views, rpc, rdShared, rdCount, reads, chains>>
    /\ UNCHANGED <<connVars, updaterVars>>
    /\ UNCHANGED <<obsVars, shutVars, calcVars>>

\* The handler connected and subscribed: on_connect was delivered, the
\* futures were subscribed, a batch with a tick of NIFTY 50 was applied
\* and handed to update_data, and _subscribe_options added the options
\* around the money
FirstTick ==
    [instrument_token |-> 1, last_price |-> 22010, change |-> 0, volume |-> 0,
     trades |-> <<>>]

RECURSIVE MapOptions(_, _)
MapOptions(m, rows) ==
    IF rows = <<>> THEN m
    ELSE MapOptions(MapOption(m, rows[1].token, rows[1].symbol), Tail(rows))

SessionFrom(extra, delivered, received) ==
    LET futures == SeqOf(FuturesRows.NFO \cup FuturesRows.BFO)
        md == Put(EmptyMap, NIFTY_50, SpotEntry(FirstTick))
        options == OptionsToAdd(OptionRows, md)
    IN
    /\ pc = [t \in Threads |-> IF t = "main" THEN "wait" ELSE "idle"]
    /\ should_exit = FALSE
    /\ exit_status = <<>>
    /\ attempt = 1
    /\ ws_handler = 0
    /\ gen = 1
    /\ connected = TRUE
    /\ rcount = 0
    /\ backoff_time = INITIAL_BACKOFF
    /\ selfToken = "init"
    /\ feedSt = "open"
    /\ kwsTok = "fresh"
    /\ pendingClose = FALSE
    /\ tok = [t \in Threads |-> "none"]
    /\ why = [t \in Threads |-> "none"]
    /\ waits = <<>>
    /\ succeeded = FALSE
    /\ gave_up = 0
    /\ initFailed = FALSE
    /\ opens = 0
    /\ drops = 0
    /\ token_symbol_map =
          MapOptions(MapFutures(SYMBOL_TOKEN_MAP(extra), futures), options)
    /\ market_data = md
    /\ futures_data = EmptyMap
    /\ options_data = EmptyMap
    /\ has_ltv = TRUE
    /\ ltv = ResetVolumes({futures[i] : i \in 1..Len(futures)})
    /\ subscribed = {i.token : i \in SPOT_TOKENS}
                       \cup {futures[i].token : i \in 1..Len(futures)}
                       \cup {options[i].token : i \in 1..Len(options)}
    /\ sentUnmapped = {}
    /\ published = <<md, EmptyMap, EmptyMap>>
    /\ remaining = 0
    /\ last_tick = FirstTick
    /\ outcome = [NoBatch EXCEPT !.published = TRUE]
    /\ tpc = "idle"
    /\ opc = "done"
    /\ optTodo = <<>>
    /\ options_tokens = [i \in 1..Len(options) |-> options[i].token]
    /\ connects = delivered
    /\ batches = received
    /\ lock = "free"
    /\ applied = [market |-> {1}, futures |-> {}, options |-> {}]
    /\ views = <<>>
    /\ optCalls = 1
    /\ lastRecv = Put(EmptyMap, 1, <<FirstTick.last_price, FirstTick.change>>)
    /\ stop_event = FALSE
    /\ CalcOff

Session(extra, delivered) == SessionFrom(extra, delivered, 1)

Subscribed(extra) == Session(extra, 1)

\* The updater when update_data has just put the view of that batch,
\* with its worker at w: still starting Excel ("init"), or waiting for
\* the next view after it has written this one ("idle")
JustPut(w) ==
    /\ now = update_interval
    /\ last_update = now
    /\ enqueuedAt = <<now>>
    /\ calledAt = <<now>>
    /\ handed = {published}
    /\ queue = IF w = "init" THEN <<published>> ELSE <<>>
    /\ wpc = w
    /\ cur = <<>>
    /\ sink = IF w = "init" THEN <<>> ELSE <<published>>

InitStore ==
    /\ \E extra \in StaticExtras : Subscribed(extra)
    /\ JustPut("idle")
    /\ rpc = "idle"
    /\ rd = NoCopies
    /\ rdShared = NoShares
    /\ rdCount = 0
    /\ reads = 0
    /\ cpc = "idle"
    /\ chains = 0

NextStore ==
    \/ Receive
    \/ OnTick
    \/ TickLock
    \/ Upsert
    \/ GetMarketData
    \/ GetFuturesData
    \/ GetOptionsData
    \/ Publish
    \/ RmCallMarket
    \/ RmGetMarket
    \/ RmCallOptions
    \/ RmGetOptions
    \/ RmUpdate
    \/ ChainLock
    \/ ChainUpdate

SpecStore == InitStore /\ [][NextStore]_vars

-----------------------------------------------------------------------------
\* The updater: update_data called by _on_ticks, the queue and the thread
\* _excel_worker, with time passing

\* Bound of the clock
MaxTime == 11

\* time.time() advances by a tenth of a second
TimePasses ==
    /\ now < MaxTime
    /\ now' = now + 1
    /\ UNCHANGED <<last_update, queue, wpc, cur, sink, enqueuedAt, calledAt,
                   handed>>
    /\ UNCHANGED <<connVars, tickVars, storeVars, readerVars>>
    /\ UNCHANGED <<obsVars, shutVars, calcVars>>

\* _excel_worker: Excel is started and the sheet laid out; the loop is
\* entered
WorkerStart ==
    /\ Alive
    /\ wpc = "init"
    /\ wpc' = "idle"
    /\ UNCHANGED <<now, last_update, queue, cur, sink, enqueuedAt, calledAt,
                   handed>>
    /\ UNCHANGED <<connVars, tickVars, storeVars, readerVars>>
    /\ UNCHANGED <<obsVars, shutVars, calcVars>>

\* _excel_worker: starting Excel raises; the outer except clause logs it
\* and the thread ends
WorkerFails ==
    /\ Alive
    /\ wpc = "init"
    /\ wpc' = "dead"
    /\ UNCHANGED <<now, last_update, queue, cur, sink, enqueuedAt, calledAt,
                   handed>>
    /\ UNCHANGED <<connVars, tickVars, storeVars, readerVars>>
    /\ UNCHANGED <<obsVars, shutVars, calcVars>>

\* _excel_worker: "while not self._stop_event.is_set()", and
\* data = self._queue.get(timeout=0.1)
WorkerGet ==
    /\ Alive
    /\ ~stop_event
    /\ wpc = "idle"
    /\ queue # <<>>
    /\ cur' = <<Head(queue)>>
    /\ queue' = Tail(queue)
    /\ wpc' = "busy"
    /\ UNCHANGED <<now, last_update, sink, enqueuedAt, calledAt, handed>>
    /\ UNCHANGED <<connVars, tickVars, storeVars, readerVars>>
    /\ UNCHANGED <<obsVars, shutVars, calcVars>>

\* _excel_worker: the cells of the sheet are written from the view
WorkerWrite ==
    /\ Alive
    /\ wpc = "busy"
    /\ sink' = cur
    /\ cur' = <<>>
    /\ wpc' = "idle"
    /\ UNCHANGED <<now, last_update, queue, enqueuedAt, calledAt, handed>>
    /\ UNCHANGED <<connVars, tickVars, storeVars, readerVars>>
    /\ UNCHANGED <<obsVars, shutVars, calcVars>>

\* The handler connected and subscribed, the view of its last batch just
\* put on the queue; nothing reads the store besides _on_ticks
InitPublish ==
    /\ \E extra \in StaticExtras : Subscribed(extra)
    /\ \E w \in {"init", "idle"} : JustPut(w)
    /\ rpc = "off"
    /\ rd = NoCopies
    /\ rdShared = NoShares
    /\ rdCount = 0
    /\ reads = 0
    /\ cpc = "off"
    /\ chains = 0

NextPublish ==
    \/ Receive
    \/ OnTick
    \/ Upsert
    \/ GetMarketData
    \/ GetFuturesData
    \/ GetOptionsData
    \/ Publish
    \/ TimePasses
    \/ WorkerStart
    \/ WorkerFails
    \/ WorkerGet
    \/ WorkerWrite

SpecPublish == InitPublish /\ [][NextPublish]_vars

-----------------------------------------------------------------------------
\* nifty500_historical_data.py: retry_excel_operation(operation,
\* max_retries=5, retry_delay=30), for any operation: each call of it
\* returns a result or raises an exception

retry_delay == 30
DefaultRetries == 5
MaxRetriesArg == 3

Results == {"r1", "r2"}
Errors == {"e1", "e2"}

\* "if attempt == max_retries - 1"
LastAttemptBug(a, retries) == FALSE
LastAttempt(a, retries) == a = retries - 1

\* the outcome of the last call of operation
LastCall == retry_log[Len(retry_log)]

\* "for attempt in range(max_retries)" has a next value: operation() is
\* called, and a result is returned at once
RetryCall ==
    /\ retry_pc = "loop"
    /\ retry_attempt < max_retries
    /\ \E o \in ({"ok"} \X Results) \cup ({"error"} \X Errors) :
          /\ retry_log' = Append(retry_log, <<"call", o[1], o[2]>>)
          /\ IF o[1] = "ok"
                THEN /\ retry_out' = <<"return", o[2]>>
                     /\ retry_pc' = "done"
                ELSE /\ retry_pc' = "except"
                     /\ UNCHANGED retry_out
    /\ UNCHANGED <<max_retries, retry_attempt>>
    /\ UNCHANGED <<connVars, tickVars, storeVars, readerVars, updaterVars,
                   obsVars, shutVars, greeksVars, strikeVars,
                   lateVars>>

\* the except clause: the last attempt raises e again, any other logs a
\* warning and goes to sleep
RetryExcept ==
    /\ retry_pc = "except"
    /\ IF LastAttempt(retry_attempt, max_retries)
          THEN /\ retry_out' = <<"raise", LastCall[3]>>
               /\ retry_pc' = "done"
          ELSE /\ retry_pc' = "sleep"
               /\ UNCHANGED retry_out
    /\ UNCHANGED <<max_retries, retry_attempt, retry_log>>
    /\ UNCHANGED <<connVars, tickVars, storeVars, readerVars, updaterVars,
                   obsVars, shutVars, greeksVars, strikeVars,
                   lateVars>>

\* time.sleep(retry_delay), and the loop takes its next value
RetrySleep ==
    /\ retry_pc = "sleep"
    /\ retry_log' = Append(retry_log, <<"sleep", retry_delay>>)
    /\ retry_attempt' = retry_attempt + 1
    /\ retry_pc' = "loop"
    /\ UNCHANGED <<max_retries, retry_out>>
    /\ UNCHANGED <<connVars, tickVars, storeVars, readerVars, updaterVars,
                   obsVars, shutVars, greeksVars, strikeVars,
                   lateVars>>

\* range(max_retries) is used up: the function ends without a return
\* statement, returning None
RetryFallsOut ==
    /\ retry_pc = "loop"
    /\ retry_attempt >= max_retries
    /\ retry_out' = <<"return", "None">>
    /\ retry_pc' = "done"
    /\ UNCHANGED <<max_retries, retry_attempt, retry_log>>
    /\ UNCHANGED <<connVars, tickVars, storeVars, readerVars, updaterVars,
                   obsVars, shutVars, greeksVars, strikeVars,
                   lateVars>>

InitRetry ==
    /\ NotStarted
    /\ LateOff
    /\ GreeksOff
    /\ IvOff
    /\ StrikesOff
    /\ max_retries \in (0..MaxRetriesArg) \cup {DefaultRetries}
    /\ retry_attempt = 0
    /\ retry_pc = "loop"
    /\ retry_log = <<>>
    /\ retry_out = <<>>

NextRetry ==
    \/ RetryCall
    \/ RetryExcept
    \/ RetrySleep
    \/ RetryFallsOut

SpecRetry == InitRetry /\ [][NextRetry]_vars

-----------------------------------------------------------------------------
\* greeks.py: GreeksCalculator. S and K are whole prices, T whole years,
\* sigma hundredths. What an expression raises is computed as Python does,
\* operand by operand; a value that is not needed exactly is kept as "some
\* number": a number is <<n>> when it is known to be n (delta in
\* ten-thousandths, iv in percent), and <<>> otherwise.
\* Dividing by 0.0 raises ZeroDivisionError between two floats and gives
\* inf or nan, with a warning, when an operand is a numpy.float64: which
\* of the two a division by a value of norm.pdf or norm.cdf does is
\* decided by scipy, outside these sources, and both are considered
\* (np_scalars).

Known(n) == <<n>>
SomeNumber == <<>>

\* _d1: (math.log(S/K) + ...) / (sigma*math.sqrt(T)), on the arguments as
\* they are passed (floats), raises ZeroDivisionError for K = 0 or a zero
\* divisor, ValueError for the logarithm of a number that is not positive
\* or the root of a negative one; the except clause returns 0
D1Raises(S, K, T, sigma) ==
    \/ K = 0
    \/ (S > 0) # (K > 0)
    \/ S = 0
    \/ T < 0
    \/ sigma = 0
    \/ T = 0

D1(S, K, T, sigma) == IF D1Raises(S, K, T, sigma) THEN Known(0) ELSE SomeNumber

\* gamma = norm.pdf(d1) / (S * sigma * math.sqrt(T)) is the first
\* statement of calculate_greeks that may raise: math.sqrt(T) for T < 0,
\* the division by 0.0 when norm.pdf returns a float
GammaRaises(np, S, T, sigma) ==
    \/ T < 0
    \/ ~np /\ (S = 0 \/ sigma = 0 \/ T = 0)

ZeroGreeks ==
    [delta |-> Known(0), gamma |-> Known(0), theta |-> Known(0),
     vega |-> Known(0), iv |-> Known(0)]

\* norm.cdf(0) is 0.5: delta is 0.5 for a call and -0.5 for a put
DeltaAt(d1, is_call) ==
    IF d1 = Known(0) THEN Known(IF is_call THEN 5000 ELSE -5000) ELSE SomeNumber

Greeks(np, a) ==
    LET d1 == D1(a.S, a.K, a.T, a.sigma)
    IN IF GammaRaises(np, a.S, a.T, a.sigma)
          THEN ZeroGreeks
          ELSE [delta |-> DeltaAt(d1, a.is_call),
                gamma |-> SomeNumber,
                theta |-> SomeNumber,
                vega |-> SomeNumber,
                iv |-> Known(a.sigma)]

CalculateGreeks ==
    /\ greeks_args # NoGreeksArgs
    /\ greeks_out = <<>>
    /\ greeks_out' = <<Greeks(np_scalars, greeks_args)>>
    /\ UNCHANGED <<np_scalars, greeks_args, iv_args, iv_sigma, iv_iter, iv_pc,
                   iv_out>>
    /\ UNCHANGED <<connVars, tickVars, storeVars, readerVars, updaterVars,
                   obsVars, shutVars, retryVars, strikeVars,
                   lateVars>>

\* estimate_iv: sigma starts at 0.5 ("initial"), and is later the floor
\* 0.0001 ("floor"), some other positive number ("positive"), or inf or
\* nan ("not_finite")
max_iterations == 100

\* d1 and d2 of a turn are both 0 when T = 0 and sigma is finite: the
\* price is then S/2 - K/2 for a call and K/2 - S/2 for a put
PriceAtExpiry(a) == IF a.is_call THEN a.S - a.K ELSE a.K - a.S

\* "if abs(diff) < precision" may hold, and may fail: for T = 0 the price
\* is known, and it is nan once sigma is not finite
MayConverge(a, sigma) ==
    IF a.T = 0 THEN sigma # "not_finite" /\ 2 * a.market_price = PriceAtExpiry(a)
    ELSE TRUE
MayDiverge(a, sigma) ==
    IF a.T = 0 THEN sigma = "not_finite" \/ 2 * a.market_price # PriceAtExpiry(a)
    ELSE TRUE

\* vega = S * math.sqrt(T) * norm.pdf(d1) is 0.0
VegaZero(a) == a.S = 0 \/ a.T = 0

\* sigma = sigma + diff/vega raises ZeroDivisionError when diff and vega
\* are floats, or math.sqrt(T) ValueError: "except Exception: return 0"
StepRaises(np, a) == a.T < 0 \/ (~np /\ VegaZero(a))

\* sigma + diff/vega for vega = 0.0 in numpy.float64: -inf when diff is
\* negative, which "if sigma <= 0" replaces by the floor, and inf or nan
\* otherwise, which it does not
AfterZeroVega(a, sigma) ==
    IF sigma = "not_finite" THEN {"not_finite"}
    ELSE IF a.T = 0
            THEN IF 2 * a.market_price < PriceAtExpiry(a) THEN {"floor"}
                 ELSE {"not_finite"}
    ELSE {"floor", "not_finite"}

\* sigma after the turn, "if sigma <= 0: sigma = 0.0001" included
NextSigma(a, sigma) ==
    IF VegaZero(a) THEN AfterZeroVega(a, sigma) ELSE {"positive", "floor"}

\* one turn of "for _ in range(max_iterations)"
IvIterate ==
    /\ iv_pc = "loop"
    /\ iv_iter < max_iterations
    /\ \/ /\ MayConverge(iv_args, iv_sigma)
          /\ iv_out' = <<"sigma", iv_sigma>>
          /\ iv_pc' = "done"
          /\ UNCHANGED <<iv_sigma, iv_iter>>
       \/ /\ MayDiverge(iv_args, iv_sigma)
          /\ IF StepRaises(np_scalars, iv_args)
                THEN /\ iv_out' = <<"zero">>
                     /\ iv_pc' = "done"
                     /\ UNCHANGED <<iv_sigma, iv_iter>>
                ELSE /\ iv_sigma' \in NextSigma(iv_args, iv_sigma)
                     /\ iv_iter' = iv_iter + 1
                     /\ UNCHANGED <<iv_out, iv_pc>>
    /\ UNCHANGED <<np_scalars, greeks_args, greeks_out, iv_args>>
    /\ UNCHANGED <<connVars, tickVars, storeVars, readerVars, updaterVars,
                   obsVars, shutVars, retryVars, strikeVars,
                   lateVars>>

\* the loop is used up: return sigma * 100
IvExhausted ==
    /\ iv_pc = "loop"
    /\ iv_iter = max_iterations
    /\ iv_out' = <<"sigma", iv_sigma>>
    /\ iv_pc' = "done"
    /\ UNCHANGED <<np_scalars, greeks_args, greeks_out, iv_args, iv_sigma,
                   iv_iter>>
    /\ UNCHANGED <<connVars, tickVars, storeVars, readerVars, updaterVars,
                   obsVars, shutVars, retryVars, strikeVars,
                   lateVars>>

\* The arguments the methods are checked with
GreeksInputs ==
    [S : {-1, 0, 100}, K : {-1, 0, 100, 110}, T : {-1, 0, 1},
     sigma : {0, 20}, is_call : BOOLEAN]

IvInputs ==
    [S : {100}, K : {100, 110}, T : {0, 1}, market_price : {0, 5},
     is_call : BOOLEAN]
    \cup [S : {0}, K : {100}, T : {0}, market_price : {0, 5},
          is_call : BOOLEAN]

InitGreeks ==
    /\ NotStarted
    /\ LateOff
    /\ RetryOff
    /\ StrikesOff
    /\ np_scalars \in BOOLEAN
    /\ \/ /\ greeks_args \in GreeksInputs \ {NoGreeksArgs}
          /\ greeks_out = <<>>
          /\ IvOff
       \/ /\ greeks_args = NoGreeksArgs
          /\ greeks_out = <<>>
          /\ iv_args \in IvInputs
          /\ iv_sigma = "initial"
          /\ iv_iter = 0
          /\ iv_pc = "loop"
          /\ iv_out = <<>>

NextGreeks ==
    \/ CalculateGreeks
    \/ IvIterate
    \/ IvExhausted

SpecGreeks == InitGreeks /\ [][NextGreeks]_vars

-----------------------------------------------------------------------------
\* The strikes of one index, where they are subscribed and where they are
\* written to the sheet: _subscribe_options takes the spot price from
\* market_data, _excel_worker takes it from the view it is given, together
\* with the options that have an entry by then. Prices are whole numbers.

\* _subscribe_options: index_map, spot symbol by index name
SpotSymbolOf(index_name) ==
    IF index_name = IndexPrefixes[1] THEN NIFTY_50
    ELSE IF index_name = IndexPrefixes[2] THEN NIFTY_BANK
    ELSE SENSEX

\* _excel_worker: strike_gap by index name, 50 by default
RenderStrikeGap(index_name) ==
    IF index_name \in {IndexPrefixes[2], IndexPrefixes[5]} THEN 100 ELSE 50

\* _excel_worker: atm_strike = round(float(spot_price) / strike_gap) * strike_gap
RenderAtmStrike(spot_price, strike_gap) == RoundDiv(spot_price, strike_gap) * strike_gap

\* int(a / b) for b > 0: the quotient cut towards 0
TruncDiv(a, b) == IF a >= 0 THEN a \div b ELSE -((-a) \div b)

\* _excel_worker: row_offset = int((strike - (atm_strike - 5 * strike_gap)) / strike_gap)
RowOffset(strike, atm_strike, strike_gap) ==
    TruncDiv(strike - (atm_strike - 5 * strike_gap), strike_gap)

\* sorted(strikes_data.keys())
RECURSIVE Sorted(_)
Sorted(S) ==
    IF S = {} THEN <<>>
    ELSE LET x == CHOOSE y \in S : \A z \in S : y <= z
         IN <<x>> \o Sorted(S \ {x})

\* _excel_worker: "for i, strike in enumerate(sorted_strikes[:10])"
RowLimit(strikes) == SubSeq(strikes, 1, Min(10, Len(strikes)))

\* _subscribe_options: atm_strike and strikes of the index, "if spot_price > 0"
SelectStrikes ==
    /\ chain_index # <<>>
    /\ sub_strikes = <<>>
    /\ chain_spot > 0
    /\ LET strike_gap == StrikeGap(SpotSymbolOf(chain_index[1]))
           atm_strike == AtmStrike(chain_spot, strike_gap)
       IN /\ sub_atm' = <<atm_strike>>
          /\ sub_strikes' = <<Strikes(atm_strike, strike_gap)>>
    /\ UNCHANGED <<chain_index, chain_spot, chain_data, render_atm, render_rows>>
    /\ UNCHANGED <<connVars, tickVars, storeVars, readerVars, updaterVars,
                   obsVars, shutVars, retryVars, greeksVars,
                   lateVars>>

\* ticks of subscribed options are stored: all of them, or all but a few
MaxMissing == 1

OptionTicks ==
    /\ sub_strikes # <<>>
    /\ chain_data = {}
    /\ \E missing \in SUBSET (1..11) :
          /\ Cardinality(missing) <= MaxMissing
          /\ chain_data' = {sub_strikes[1][i] : i \in (1..11) \ missing}
    /\ UNCHANGED <<chain_index, chain_spot, sub_atm, sub_strikes, render_atm,
                   render_rows>>
    /\ UNCHANGED <<connVars, tickVars, storeVars, readerVars, updaterVars,
                   obsVars, shutVars, retryVars, greeksVars,
                   lateVars>>

\* _excel_worker: the rows of the options section of the index
RenderRows ==
    /\ chain_data # {}
    /\ render_rows = <<>>
    /\ LET strike_gap == RenderStrikeGap(chain_index[1])
           atm_strike == RenderAtmStrike(chain_spot, strike_gap)
           shown == RowLimit(Sorted(chain_data))
       IN /\ render_atm' = <<atm_strike>>
          /\ render_rows' =
                << {[strike |-> shown[i],
                     row_offset |-> RowOffset(shown[i], atm_strike, strike_gap)] :
                       i \in 1..Len(shown)} >>
    /\ UNCHANGED <<chain_index, chain_spot, sub_atm, sub_strikes, chain_data>>
    /\ UNCHANGED <<connVars, tickVars, storeVars, readerVars, updaterVars,
                   obsVars, shutVars, retryVars, greeksVars,
                   lateVars>>

\* The spot prices and indices the strikes are checked with
MaxSpot == 210
Spots == {22000 + d : d \in 0..MaxSpot} \cup {10024, 10050}

InitStrikes ==
    /\ NotStarted
    /\ LateOff
    /\ RetryOff
    /\ GreeksOff
    /\ IvOff
    /\ chain_index \in {<<IndexPrefixes[1]>>, <<IndexPrefixes[2]>>}
    /\ chain_spot \in Spots
    /\ sub_atm = <<>>
    /\ sub_strikes = <<>>
    /\ chain_data = {}
    /\ render_atm = <<>>
    /\ render_rows = <<>>

NextStrikes ==
    \/ SelectStrikes
    \/ OptionTicks
    \/ RenderRows

SpecStrikes == InitStrikes /\ [][NextStrikes]_vars

\* The spot price of the index moves after the options were subscribed:
\* a later tick of the index replaces its entry in market_data, and the
\* views handed to the worker carry the new price. The options of the
\* first subscription stay subscribed and keep their entries.
\* Bound of the distance of the spot price from the strike that was at the
\* money at the subscription
MaxDrift == 150

SpotMoves ==
    /\ sub_strikes # <<>>
    /\ render_rows = <<>>
    /\ \E d \in {-100, 100} :
          /\ chain_spot + d - sub_atm[1] \in -MaxDrift..MaxDrift
          /\ chain_spot' = chain_spot + d
    /\ UNCHANGED <<chain_index, sub_atm, sub_strikes, chain_data, render_atm,
                   render_rows>>
    /\ UNCHANGED <<connVars, tickVars, storeVars, readerVars, updaterVars,
                   obsVars, shutVars, retryVars, greeksVars,
                   lateVars>>

NextRows == NextStrikes \/ SpotMoves

SpecRows == InitStrikes /\ [][NextRows]_vars

-----------------------------------------------------------------------------
\* Shutdown: run_monitor leaves its loop on should_exit, closes the
\* handler and calls sys.exit(0), while the worker of the ExcelUpdater the
\* handler holds is running. The worker is a daemon thread: it takes no
\* step once the process has exited. Nothing but __del__ sets
\* self._stop_event, and the updater is referenced by the handler until
\* the interpreter is torn down: __del__ runs then, if it runs at all.

\* ExcelUpdater.__del__: self._stop_event.set(), and
\* self._excel_thread.join(timeout=5.0), which waits for a thread that
\* does not run any more
Del ==
    /\ ~Alive
    /\ ~stop_event
    /\ stop_event' = TRUE
    /\ UNCHANGED <<connVars, tickVars, storeVars, readerVars, updaterVars,
                   obsVars, calcVars>>

\* The handler connected and subscribed, __init__ about to return to
\* initialize_components, the worker starting or idle
InitShutdown ==
    /\ \E extra \in StaticExtras : Subscribed(extra)
    /\ \E w \in {"init", "idle"} : JustPut(w)
    /\ rpc = "off"
    /\ rd = NoCopies
    /\ rdShared = NoShares
    /\ rdCount = 0
    /\ reads = 0
    /\ cpc = "off"
    /\ chains = 0

NextShutdown ==
    \/ Signal
    \/ \E t \in Threads : WaitConnected(t)
    \/ \E t \in Threads : ResetCount(t)
    \/ \E t \in Threads : ResetBackoff(t)
    \/ MonitorLoop
    \/ Finally
    \/ Del
    \/ TimePasses
    \/ WorkerStart
    \/ WorkerFails
    \/ WorkerGet
    \/ WorkerWrite

SpecShutdown == InitShutdown /\ [][NextShutdown]_vars

-----------------------------------------------------------------------------
\* The deferred subscription of the option chain: _on_connect starts a
\* thread delayed_options_subscription at every delivery of on_connect;
\* the thread sleeps 2 seconds, and calls _subscribe_options when
\* self.market_data is not empty. The handler is either a new one, or one
\* whose first session has subscribed the options and whose feed delivers
\* on_connect again (KiteTicker reconnects by itself); connects counts the
\* deliveries from the initial state on.

InitOptions ==
    \/ InitTicks
    \/ /\ \E extra \in StaticExtras : Session(extra, 0)
       /\ JustPut("idle")
       /\ rpc = "off"
       /\ rd = NoCopies
       /\ rdShared = NoShares
       /\ rdCount = 0
       /\ reads = 0
       /\ cpc = "off"
       /\ chains = 0

\* a step of the thread delayed_options_subscription
OptionsStep == OptionsWake \/ OptionsAdd \/ OptionsSubscribe

\* The threads of the program take their steps: the thread
\* delayed_options_subscription wakes from its sleep and runs to its end,
\* and every handler the callback thread of the feed has entered
\* returns. What the feed delivers, and when, is left to the feed.
OptionsFair ==
    /\ WF_vars(OptionsStep)
    /\ []<>(tpc \in {"off", "idle"})

SpecOptions == InitOptions /\ [][NextTicks]_vars /\ OptionsFair

-----------------------------------------------------------------------------
\* ExcelWebSocketHandler.close, called on a connected handler by a thread
\* that goes on running (the finally clause of run_monitor in monitor.py):
\* self.connected = False and self.kws.close(). Closing the feed delivers
\* on_close to _on_close on the callback thread. self.update_thread does
\* not exist, so close ends there.

CloseHandler ==
    /\ Alive
    /\ ~closed
    /\ closed' = TRUE
    /\ connected' = FALSE
    /\ feedSt' = IF feedSt = "none" THEN "none" ELSE "closed"
    /\ pendingClose' = (pendingClose \/ feedSt \in {"connecting", "open"})
    /\ UNCHANGED <<pc, should_exit, exit_status, attempt, ws_handler, gen,
                   rcount, backoff_time, selfToken, kwsTok, tok, why, waits,
                   succeeded, gave_up, initFailed, opens, drops>>
    /\ UNCHANGED <<tickVars, storeVars, readerVars, updaterVars>>
    /\ UNCHANGED <<obsVars, shutVars, retryVars, greeksVars, strikeVars,
                   limiterVars, callerVars>>

Close ==
    /\ CloseHandler
    /\ UNCHANGED monitorVars

InitClose == InitStore

NextClose ==
    \/ Close
    \/ OnConnect
    \/ Disconnect
    \/ OnClose
    \/ HandleReconnect("feed")
    \/ IncrementCount("feed")
    \/ DoubleBackoff("feed")
    \/ Sleep("feed")
    \/ Tokens("feed")
    \/ Kws("feed")
    \/ WaitConnected("feed")
    \/ WaitTimeout("feed")
    \/ ResetCount("feed")
    \/ ResetBackoff("feed")

SpecClose == InitClose /\ [][NextClose]_vars

-----------------------------------------------------------------------------
\* RateLimiter of nifty500_historical_data.py. fetch_with_retry calls
\* rate_limiter.wait_if_needed() before every fetch, from whichever thread
\* runs it. The whole body of wait_if_needed, its sleep included, runs with
\* self.lock held, so the calls are serialised and one call is one step.
\* Time is counted in ticks, TicksPerSecond of them to the second.

max_requests == 3

time_window == 1

TicksPerSecond == 2

MaxClock == 6

MaxCalls == 8

Window == time_window * TicksPerSecond

\* [req_time for req_time in self.requests if now - req_time <= self.time_window]
RECURSIVE Recent(_, _)
Recent(requests, t) ==
    IF requests = <<>> THEN <<>>
    ELSE IF t - Head(requests) <= Window
         THEN <<Head(requests)>> \o Recent(Tail(requests), t)
         ELSE Recent(Tail(requests), t)

\* time passes between two calls
ClockTick ==
    /\ rl_clock < MaxClock
    /\ rl_clock' = rl_clock + 1
    /\ UNCHANGED <<rl_requests, rl_returns>>
    /\ UNCHANGED <<progVars, lateButLimiter>>

\* wait_if_needed: the time slept while holding the lock
SleepTime(requests, t) ==
    IF Len(requests) >= max_requests /\ requests[1] + Window - t > 0
    THEN requests[1] + Window - t
    ELSE 0

\* wait_if_needed: self.requests when the call returns
RequestsAfter(requests, t) ==
    IF Len(requests) >= max_requests
    THEN Append(Tail(requests), t)
    ELSE Append(requests, t)

WaitIfNeeded ==
    /\ Len(rl_returns) < MaxCalls
    /\ LET recent == Recent(rl_requests, rl_clock)
           wake == rl_clock + SleepTime(recent, rl_clock)
       IN /\ wake <= MaxClock
          /\ rl_requests' = RequestsAfter(recent, rl_clock)
          /\ rl_clock' = wake
          /\ rl_returns' = Append(rl_returns, wake)
    /\ UNCHANGED <<progVars, lateButLimiter>>

InitLimiter ==
    /\ NotStarted
    /\ CalcOff

NextLimiter == ClockTick \/ WaitIfNeeded

SpecLimiter == InitLimiter /\ [][NextLimiter]_vars

-----------------------------------------------------------------------------
\* run_monitor of monitor.py, running on a connected handler. Its loop
\* reads websocket_handler.connected, then calls
\* excel_updater.update_data(market_data, options_data). The raise of
\* "Max Excel update errors reached" stands in the except clause of the
\* innermost try statement; the try statement around that one (the one whose
\* except clause logs "Error getting market data") catches Exception. Only
\* an exception that is no Exception (KeyboardInterrupt) leaves the loop.

MAX_ERRORS == 3

MaxErrorCount == 5

\* the positional arguments of the call, and the parameters after self of
\* ExcelUpdater.update_data, none of them with a default
UpdateDataArgs == 2

UpdateDataParams == 3

\* binding the arguments raises TypeError; the body of update_data catches
\* every Exception of its own
CallRaises == UpdateDataArgs # UpdateDataParams

\* exceptions that `except Exception` catches
IsException(e) == e \in {"Exception", "TypeError"}

\* run_monitor is called
MonitorStart ==
    /\ mon_pc = "off"
    /\ mon_pc' = "check"
    /\ error_count' = 0
    /\ UNCHANGED mon_exc
    /\ UNCHANGED <<progVars, lateButMonitor>>

\* the top of the loop: not connected, or not yet time to update, goes
\* round; otherwise the maps are read and update_data is called
MonitorCheck ==
    /\ mon_pc = "check"
    /\ \E due \in BOOLEAN :
          mon_pc' = IF connected /\ due THEN "update" ELSE "check"
    /\ UNCHANGED <<error_count, mon_exc>>
    /\ UNCHANGED <<progVars, lateButMonitor>>

\* the call of update_data and the except clause after it
MonitorUpdate ==
    /\ mon_pc = "update"
    /\ error_count < MaxErrorCount
    /\ IF CallRaises
       THEN /\ error_count' = error_count + 1
            /\ IF error_count + 1 >= MAX_ERRORS
               THEN /\ mon_pc' = "raised"
                    /\ mon_exc' = "Exception"
               ELSE /\ mon_pc' = "check"
                    /\ UNCHANGED mon_exc
       ELSE /\ error_count' = 0
            /\ mon_pc' = "check"
            /\ UNCHANGED mon_exc
    /\ UNCHANGED <<progVars, lateButMonitor>>

\* the exception raised in the except clause reaches the except clause of
\* the enclosing try statement
MonitorCatch ==
    /\ mon_pc = "raised"
    /\ IF IsException(mon_exc)
       THEN /\ mon_pc' = "check"
            /\ mon_exc' = "none"
       ELSE /\ mon_pc' = "finally"
            /\ UNCHANGED mon_exc
    /\ UNCHANGED error_count
    /\ UNCHANGED <<progVars, lateButMonitor>>

\* KeyboardInterrupt while the loop runs
MonitorInterrupt ==
    /\ mon_pc \in {"check", "update"}
    /\ mon_pc' = "finally"
    /\ mon_exc' = "KeyboardInterrupt"
    /\ UNCHANGED error_count
    /\ UNCHANGED <<progVars, lateButMonitor>>

\* the finally clause: websocket_handler.close()
MonitorFinally ==
    /\ mon_pc = "finally"
    /\ CloseHandler
    /\ mon_pc' = "done"
    /\ UNCHANGED <<error_count, mon_exc>>

InitMonitor == InitStore

NextMonitor ==
    \/ MonitorStart
    \/ MonitorCheck
    \/ MonitorUpdate
    \/ MonitorCatch
    \/ MonitorInterrupt
    \/ MonitorFinally
    \/ OnConnect
    \/ Disconnect
    \/ OnClose
    \/ HandleReconnect("feed")
    \/ IncrementCount("feed")
    \/ DoubleBackoff("feed")
    \/ Sleep("feed")
    \/ Tokens("feed")
    \/ Kws("feed")
    \/ WaitConnected("feed")
    \/ WaitTimeout("feed")
    \/ ResetCount("feed")
    \/ ResetBackoff("feed")

SpecMonitor == InitMonitor /\ [][NextMonitor]_vars

-----------------------------------------------------------------------------
\* update_data of one ExcelUpdater called from two threads. __init__ makes
\* self._lock, and update_data does not take it: reading the clock and
\* testing self._last_update, assigning self._last_update, and
\* self._queue.put are three steps of the calling thread.

\* current_time = time.time(), and the test of the rate limit
CallerTest(c) ==
    /\ upd_pc[c] = "idle"
    /\ upd_time' = [upd_time EXCEPT ![c] = now]
    /\ calledAt' = <<now>>
    /\ upd_pc' = [upd_pc EXCEPT ![c] = IF RateLimited(now, last_update)
                                          THEN "idle"
                                          ELSE "assign"]
    /\ UNCHANGED <<now, last_update, queue, wpc, cur, sink, enqueuedAt,
                   handed>>
    /\ UNCHANGED <<connVars, tickVars, storeVars, readerVars>>
    /\ UNCHANGED <<obsVars, shutVars, retryVars, greeksVars, strikeVars,
                   lateButCallers>>

\* self._last_update = current_time
CallerAssign(c) ==
    /\ upd_pc[c] = "assign"
    /\ last_update' = upd_time[c]
    /\ upd_pc' = [upd_pc EXCEPT ![c] = "put"]
    /\ UNCHANGED upd_time
    /\ UNCHANGED <<now, queue, wpc, cur, sink, enqueuedAt, calledAt, handed>>
    /\ UNCHANGED <<connVars, tickVars, storeVars, readerVars>>
    /\ UNCHANGED <<obsVars, shutVars, retryVars, greeksVars, strikeVars,
                   lateButCallers>>

\* self._queue.put of the three maps
CallerPut(c) ==
    /\ upd_pc[c] = "put"
    /\ queue' = Append(queue, published)
    /\ enqueuedAt' = <<now>>
    /\ upd_pc' = [upd_pc EXCEPT ![c] = "idle"]
    /\ UNCHANGED upd_time
    /\ UNCHANGED <<now, last_update, wpc, cur, sink, calledAt, handed>>
    /\ UNCHANGED <<connVars, tickVars, storeVars, readerVars>>
    /\ UNCHANGED <<obsVars, shutVars, retryVars, greeksVars, strikeVars,
                   lateButCallers>>

InitCallers == InitPublish

NextCallers ==
    \/ TimePasses
    \/ \E c \in Callers : CallerTest(c)
    \/ \E c \in Callers : CallerAssign(c)
    \/ \E c \in Callers : CallerPut(c)
    \/ WorkerStart
    \/ WorkerFails
    \/ WorkerGet
    \/ WorkerWrite

SpecCallers == InitCallers /\ [][NextCallers]_vars

\* a step of the thread _excel_worker
WorkerStep == WorkerStart \/ WorkerFails \/ WorkerGet \/ WorkerWrite

\* The thread _excel_worker is scheduled: it takes its next step whenever
\* it has one. When update_data is called is left to the callers.
WorkerFair == WF_vars(WorkerStep)

SpecWorker == InitCallers /\ [][NextCallers]_vars /\ WorkerFair

-----------------------------------------------------------------------------
\* The ticks of a handler in its session, with the feed delivering
\* on_connect once more (_on_connect runs _subscribe_futures again);
\* connects and batches count from the initial state on.

InitVolumes ==
    /\ \E extra \in StaticExtras : SessionFrom(extra, 0, 0)
    /\ JustPut("idle")
    /\ rpc = "off"
    /\ rd = NoCopies
    /\ rdShared = NoShares
    /\ rdCount = 0
    /\ reads = 0
    /\ cpc = "off"
    /\ chains = 0

\* the callback thread of the feed: on_connect and on_ticks
NextVolumes ==
    \/ FeedConnect
    \/ SubscribeFutures
    \/ Receive
    \/ OnTick
    \/ Upsert
    \/ GetMarketData
    \/ GetFuturesData
    \/ GetOptionsData
    \/ Publish

SpecVolumes == InitVolumes /\ [][NextVolumes]_vars

-----------------------------------------------------------------------------
\* Steps of a thread, as seen from outside

\* t enters _connect: from __init__ of a new handler, or from
\* _handle_reconnect after its sleep
AttemptStart(t) == pc[t] # "tokens" /\ pc'[t] = "tokens"

\* the steps below are steps of the current handler (gen' = gen), not the
\* construction of the next one, which abandons the old one's threads
TokensFailStep(t) ==
    pc[t] = "tokens" /\ pc'[t] \notin {"tokens", "kws"} /\ gen' = gen
KwsStep(t) == pc[t] = "kws" /\ pc'[t] = "wait" /\ gen' = gen
ObservedStep(t) == pc[t] = "wait" /\ connected /\ pc'[t] # "wait" /\ gen' = gen
ResetCountStep(t) == pc[t] = "reset_count" /\ pc'[t] # "reset_count" /\ gen' = gen
ResetBackoffStep(t) == pc[t] = "reset_backoff" /\ pc'[t] # "reset_backoff" /\ gen' = gen
HrTestStep(t) == pc[t] = "hr" /\ pc'[t] # "hr" /\ gen' = gen
HrCountStep(t) == pc[t] = "hr_count" /\ pc'[t] # "hr_count" /\ gen' = gen

handlerFields == <<connected, rcount, backoff_time, selfToken, feedSt, kwsTok,
                   pendingClose>>

IsPrefix(s, r) == Len(s) <= Len(r) /\ \A i \in 1..Len(s) : s[i] = r[i]

-----------------------------------------------------------------------------
\* C1: as long as every connection attempt of a handler has failed, the
\* waits _handle_reconnect has applied are the first of 5, 10, 20, 40, 80,
\* in that order.
ClaimedWaits == <<5, 10, 20, 40, 80>>
C1_BackoffSequence == ~succeeded => IsPrefix(waits, ClaimedWaits)

\* C2: _reconnect_count never exceeds MAX_RECONNECTS, and while every
\* attempt of a handler has failed at most MAX_RECONNECTS reconnection
\* attempts have followed the initial one.
C2_ReconnectBudget ==
    /\ rcount <= MAX_RECONNECTS
    /\ ~succeeded => Len(waits) <= MAX_RECONNECTS

\* C3: once a handler has exhausted its reconnection budget, the process
\* starts no connection attempt on a handler constructed later.
C3_GiveUpIsPermanent ==
    [][gave_up # 0 => ~(\E t \in Threads : AttemptStart(t) /\ gen' > gave_up)]_vars

\* C4: the process ends with status 0 only on a requested shutdown, and
\* with a non-zero status when initialization failed or the budget was
\* exhausted.
C4_ExitStatus ==
    ~Alive =>
        /\ (exit_status[1] = 0 => should_exit)
        /\ ((initFailed /\ ~should_exit) => exit_status[1] # 0)

\* C5: a _connect call that observes the connection goes on to set
\* _reconnect_count to 0 and then backoff_time to the initial 5 s.
C5_ResetOnSuccess ==
    [][\A t \in Threads :
         /\ ObservedStep(t) => pc'[t] = "reset_count"
         /\ ResetCountStep(t) => (rcount' = 0 /\ pc'[t] = "reset_backoff")
         /\ ResetBackoffStep(t) =>
               (backoff_time' = INITIAL_BACKOFF /\ rcount' = rcount)]_vars

C5_Witness ==
    /\ drops = 1
    /\ feedSt = "open"
    /\ succeeded
    /\ pc["main"] = "loop"
    /\ pc["feed"] = "idle"
    /\ ws_handler = gen
    /\ rcount = 0
    /\ backoff_time = INITIAL_BACKOFF

\* C6: the step that creates the feed and invokes its connect is taken only
\* after ensure_valid_tokens has returned in the same _connect call, and
\* the feed carries the token that call returned.
C6_FreshToken ==
    /\ [][\A t \in Threads :
            KwsStep(t) => (tok[t] = "fresh" /\ kwsTok' = tok[t])]_vars
    /\ [](feedSt # "none" => kwsTok = "fresh")

C6_Witness ==
    /\ feedSt = "connecting"
    /\ kwsTok = "fresh"
    /\ rcount >= 1
    /\ \E t \in Threads : pc[t] = "wait"

\* C7 as claimed: a failure of ensure_valid_tokens leads into
\* _handle_reconnect without a feed connect, and that call consumes one
\* unit of the budget.
C7_TokenFailureConsumes ==
    [][\A t \in Threads :
         /\ TokensFailStep(t) =>
               (pc'[t] = "hr" /\ feedSt' = feedSt /\ kwsTok' = kwsTok)
         /\ (HrTestStep(t) /\ why[t] = "tokens") => pc'[t] = "hr_count"
         /\ (HrCountStep(t) /\ why[t] = "tokens") => rcount' = rcount + 1]_vars

\* C7 amended: ... and that call consumes one unit of the budget when one
\* is left; with the budget exhausted it returns and consumes nothing.
C7_TokenFailureIsFailure ==
    [][\A t \in Threads :
         /\ TokensFailStep(t) =>
               (pc'[t] = "hr" /\ feedSt' = feedSt /\ kwsTok' = kwsTok)
         /\ (HrTestStep(t) /\ why[t] = "tokens") =>
               IF rcount < MAX_RECONNECTS
                  THEN pc'[t] = "hr_count" /\ rcount' = rcount
                  ELSE pc'[t] \in {"loop", "idle"} /\ UNCHANGED handlerFields
         /\ (HrCountStep(t) /\ why[t] = "tokens") => rcount' = rcount + 1]_vars

C7_Witness ==
    /\ feedSt = "none"
    /\ rcount = 1
    /\ why["main"] = "none"
    /\ pc["main"] = "hr_backoff"

-----------------------------------------------------------------------------
\* Steps of _on_ticks, as seen from outside

\* one turn of the for loop
OnTickStep ==
    /\ tpc \in {"ticks", "locked"}
    /\ remaining > 0
    /\ remaining' # remaining

\* a tick that cannot be classified: its token has no entry in
\* token_symbol_map, or its symbol is an option symbol without a known
\* index prefix or without digits before the CE / PE marker
Unclassifiable(tick) ==
    /\ tick.instrument_token # 0
    /\ \/ tick.instrument_token \notin DOMAIN token_symbol_map
       \/ LET symbol == token_symbol_map[tick.instrument_token]
          IN /\ tick.instrument_token \notin index_tokens
             /\ ~EndsWith(symbol, FUT)
             /\ Contains(symbol, CE) \/ Contains(symbol, PE)
             /\ \/ \A i \in 1..Len(IndexPrefixes) : ~StartsWith(symbol, IndexPrefixes[i])
                \/ \A i \in 1..Len(SplitFirst(SplitFirst(symbol, CE), PE)) :
                      ~IsDigit(SplitFirst(SplitFirst(symbol, CE), PE)[i])

\* C8: a tick that cannot be classified is dropped: the turn of the loop
\* that takes it leaves market_data, futures_data and options_data as
\* they are, no exception ends the batch, and the loop goes on with the
\* next tick.
C8_UnclassifiedDropped ==
    [][(OnTickStep /\ Unclassifiable(last_tick')) =>
          /\ UNCHANGED <<market_data, futures_data, options_data>>
          /\ ~outcome'.raised
          /\ tpc' = "ticks"
          /\ remaining' = remaining - 1]_vars

C8_Witness ==
    /\ tpc = "idle"
    /\ outcome.log = <<"no_index", "options_error">>
    /\ outcome.published
    /\ ~outcome.raised

\* C9: every token a subscribe call has carried had its entry in
\* token_symbol_map when the call was made, and has it still.
C9_SubscribedAreMapped ==
    /\ sentUnmapped = {}
    /\ subscribed \subseteq DOMAIN token_symbol_map

C9_Witness ==
    /\ {1, 2, 3, 6} \subseteq subscribed
    /\ opc = "done"
    /\ tpc = "idle"

\* C10: when _on_ticks has returned, every tick of the batch has been
\* reached by the loop and update_data has been called, whatever the ticks
\* of the batch were.
C10_BatchIsolation ==
    (tpc = "idle" /\ batches > 0) =>
        (outcome.unreached = 0 /\ outcome.published)

-----------------------------------------------------------------------------
\* The step of the feed thread that leaves "with self._lock"
UpsertStep == tpc = "locked" /\ tpc' # "locked"

\* m2 is m but for the entry of at most one key
OneEntryWritten(m, m2) ==
    \/ m2 = m
    \/ \E k \in DOMAIN m2 :
          /\ DOMAIN m2 = DOMAIN m \cup {k}
          /\ \A j \in DOMAIN m \ {k} : m2[j] = m[j]

\* C11: the tick of a mapped token writes at most one entry, into the map
\* of its category: market_data when the token is an index token, else
\* futures_data when the symbol ends in FUT, else options_data when the
\* symbol has a CE or PE marker; the two other maps and every other key
\* are left as they are.
C11_OneMapPerTick ==
    [][UpsertStep =>
          LET token == last_tick.instrument_token
              symbol == token_symbol_map[token]
              isSpot == token \in index_tokens
              isFut == ~isSpot /\ EndsWith(symbol, FUT)
              isOpt == /\ ~isSpot
                       /\ ~isFut
                       /\ Contains(symbol, CE) \/ Contains(symbol, PE)
          IN /\ OneEntryWritten(market_data, market_data')
             /\ OneEntryWritten(futures_data, futures_data')
             /\ OneEntryWritten(options_data, options_data')
             /\ market_data' # market_data => isSpot
             /\ futures_data' # futures_data => isFut
             /\ options_data' # options_data => isOpt
             /\ isSpot =>
                   /\ symbol \in DOMAIN market_data'
                   /\ market_data'[symbol].token = token
             /\ (isFut /\ ~outcome'.raised) =>
                   /\ symbol \in DOMAIN futures_data'
                   /\ futures_data'[symbol].token = token]_vars

C11_Witness ==
    /\ tpc = "idle"
    /\ NIFTY_50 \in DOMAIN market_data
    /\ NIFTY_FUT \in DOMAIN futures_data
    /\ options_data # EmptyMap
    /\ market_data[NIFTY_50].token = 1
    /\ futures_data[NIFTY_FUT].token = 2

\* the digits that immediately precede the last two characters of symbol,
\* as many as there are
RECURSIVE DigitRunBefore(_, _)
DigitRunBefore(symbol, i) ==
    IF i >= 1 /\ IsDigit(symbol[i])
       THEN Append(DigitRunBefore(symbol, i - 1), symbol[i])
       ELSE <<>>

\* C12: the strike stored for a tick of an option is the number formed by
\* the longest run of digits that immediately precedes the CE / PE marker
\* of the trading symbol.
C12_StrikeIsDigitRun ==
    \A k \in DOMAIN options_data :
       LET symbol == token_symbol_map[options_data[k].token]
       IN options_data[k].strike =
             DecimalValue(DigitRunBefore(symbol, Len(symbol) - 2))

\* C13: the change_percent stored equals change / (last_price - change)
\* * 100 when last_price differs from change and 0 when they are equal,
\* and no division by zero is made for it.
ChangePercentOk(e) ==
    /\ e.change_percent[2] # 0
    /\ IF e.last_price # e.change
          THEN e.change_percent[1] * (e.last_price - e.change)
                  = e.change * 100 * e.change_percent[2]
          ELSE e.change_percent[1] = 0

C13_ChangePercent ==
    /\ \A k \in DOMAIN market_data : ChangePercentOk(market_data[k])
    /\ \A k \in DOMAIN futures_data : ChangePercentOk(futures_data[k])
    /\ \A k \in DOMAIN options_data : ChangePercentOk(options_data[k])

C13_Witness ==
    /\ NIFTY_50 \in DOMAIN market_data
    /\ market_data[NIFTY_50].last_price = 22010
    /\ market_data[NIFTY_50].change = 10
    /\ market_data[NIFTY_50].change_percent = <<1000, 22000>>
    /\ NIFTY_FUT \in DOMAIN futures_data
    /\ futures_data[NIFTY_FUT].last_price = 100
    /\ futures_data[NIFTY_FUT].change = 100
    /\ futures_data[NIFTY_FUT].change_percent = <<0, 1>>

-----------------------------------------------------------------------------
\* The copies of the maps

\* a thread has the copy of one map and not yet the copy of the last one:
\* run_monitor between get_market_data and get_options_data, _on_ticks
\* between get_market_data and get_options_data
BetweenCopies ==
    \/ rpc \in {"mid", "get_options"}
    \/ tpc \in {"get_futures", "get_options"}

\* C14: the maps handed to one publish cycle are one point-in-time copy:
\* no tick is applied between the copy of one map and the copy of another.
C14_PointInTime ==
    [][BetweenCopies =>
          UNCHANGED <<market_data, futures_data, options_data>>]_vars

\* C15: a copy that has been returned is independent of the store: no
\* step of another thread changes its keys or a field of its entries, and
\* the copy of market_data is as it was returned while the copy of
\* options_data is taken.
C15_SnapshotIndependent ==
    [][/\ rpc' = rpc => rd' = rd
       /\ rpc \in {"mid", "get_options"} => rd'.market = rd.market]_vars

\* run_monitor holds both copies, an option has been stored since, and
\* _update_options_chain has taken the lock after the copies were made
C15_Witness ==
    /\ rpc = "update"
    /\ cpc = "locked"
    /\ rd.options # EmptyMap
    /\ rd.options # options_data
    /\ rdShared.options # {}

\* C16: a copy has at least as many entries as there are instruments
\* whose tick had been stored in the map when the call was made.
C16_NoLostUpdate ==
    /\ rpc = "mid" => Cardinality(DOMAIN rd.market) >= rdCount
    /\ rpc = "update" => Cardinality(DOMAIN rd.options) >= rdCount

C16_Witness ==
    /\ rpc = "update"
    /\ rdCount = 2
    /\ Cardinality(DOMAIN rd.options) = 2
    /\ tpc = "idle"

\* C17: the lock is held only by a thread inside the with block of
\* _on_ticks or of _update_options_chain: not while update_data is
\* executed, not while a thread sleeps or waits, and not by a thread that
\* is about to acquire it.
C17_LockDiscipline ==
    /\ lock \in {"free", "feed", "chain"}
    /\ lock = "feed" => tpc = "locked"
    /\ lock = "chain" => cpc = "locked"

C17_Witness ==
    /\ tpc = "update"
    /\ lock = "chain"
    /\ rpc = "get_options"
    /\ applied.options # {}

-----------------------------------------------------------------------------
\* update_data

\* the step in which update_data is called and returns
UpdateDataStep == tpc = "update" /\ tpc' # "update"

\* C18: two views put on the queue are at least update_interval apart,
\* and a call of update_data that comes sooner after the last put leaves
\* the queue and _last_update as they are.
C18_MinInterval ==
    [][/\ Len(queue') > Len(queue) =>
             \/ enqueuedAt = <<>>
             \/ now - enqueuedAt[1] >= update_interval
       /\ (/\ UpdateDataStep
           /\ enqueuedAt # <<>>
           /\ now - enqueuedAt[1] < update_interval) =>
             UNCHANGED <<queue, last_update>>]_vars

\* a call of update_data has come less than update_interval after the
\* last put, and has returned
C18_Witness ==
    /\ tpc = "idle"
    /\ calledAt # <<>>
    /\ enqueuedAt # <<>>
    /\ calledAt[1] > enqueuedAt[1]
    /\ calledAt[1] - enqueuedAt[1] < update_interval
    /\ published # <<>>
    /\ published \notin handed

\* C19: update_data never waits for the worker, whatever the worker is
\* doing, and the sheet is written by steps of the worker only, during
\* which the thread of _on_ticks does not move.
C19_PublishNeverBlocks ==
    [][/\ tpc' # "put"
       /\ sink' # sink => (wpc = "busy" /\ wpc' = "idle" /\ tpc' = tpc)]_vars

\* two views were put while the worker had not entered its loop, and the
\* worker has ended without taking them
C19_Witness ==
    /\ wpc = "dead"
    /\ Len(queue) = 2
    /\ tpc = "idle"
    /\ outcome.published
    /\ sink = <<>>

\* the view holds the row of NIFTY 50 and the row of an option
BothRows(v) == NIFTY_50 \in DOMAIN v[1] /\ v[3] # EmptyMap

\* C20: when a batch with a spot tick and then a batch with an option
\* tick have been applied and update_interval has passed since, a view
\* with the spot row and the option row has been handed to the sink,
\* whether or not another batch arrives.
C20_ViewFollows ==
    (/\ tpc = "idle"
     /\ outcome.published
     /\ ~outcome.raised
     /\ calledAt # <<>>
     /\ now - calledAt[1] >= update_interval
     /\ NIFTY_50 \in DOMAIN market_data
     /\ options_data # EmptyMap)
        => \E v \in handed : BothRows(v)

\* ---- C30 ----
\* the calls of operation and the sleeps in retry_log
Calls(log) == {i \in 1..Len(log) : log[i][1] = "call"}
Sleeps(log) == {i \in 1..Len(log) : log[i][1] = "sleep"}

\* C30: retry_excel_operation calls operation at most max_retries times;
\* every sleep has the fixed delay and stands between a failed call and
\* the next call; no call follows a successful one, whose result is
\* returned; after max_retries failed calls the error of the last call is
\* raised, with no sleep after it.
C30_BoundedRetry ==
    /\ Cardinality(Calls(retry_log)) <= max_retries
    /\ \A i \in Sleeps(retry_log) :
          /\ retry_log[i][2] = retry_delay
          /\ i > 1 /\ retry_log[i - 1][1] = "call" /\ retry_log[i - 1][2] = "error"
          /\ \/ i < Len(retry_log) /\ retry_log[i + 1][1] = "call"
             \/ i = Len(retry_log) /\ retry_pc = "loop" /\ retry_attempt < max_retries
    /\ \A i \in Calls(retry_log) :
          retry_log[i][2] = "ok" =>
             /\ i = Len(retry_log)
             /\ retry_out = <<"return", retry_log[i][3]>>
    /\ (retry_pc = "done" /\ max_retries > 0) =>
          /\ LastCall[1] = "call"
          /\ LastCall[2] = "error" =>
                /\ Cardinality(Calls(retry_log)) = max_retries
                /\ retry_out = <<"raise", LastCall[3]>>

C30_Witness ==
    /\ max_retries = 3
    /\ retry_out = <<"raise", "e2">>
    /\ Cardinality(Sleeps(retry_log)) = 2
    /\ retry_log[1] = <<"call", "error", "e1">>

\* ---- C25 ----
Degenerate(a) == a.T = 0 \/ a.sigma = 0 \/ a.S <= 0 \/ a.K <= 0

\* C25: for T = 0, sigma = 0, S <= 0 or K <= 0, calculate_greeks returns
\* the record whose five fields are 0 (and it returns: it does not raise).
C25_DegenerateIsZero ==
    (greeks_out # <<>> /\ Degenerate(greeks_args)) => greeks_out = <<ZeroGreeks>>

\* ---- C26 ----
\* a turn of the loop of estimate_iv that does not return sigma
IvStep == iv_pc = "loop" /\ iv_iter < max_iterations /\ iv_out' # <<"sigma", iv_sigma>>

\* C26: a turn of estimate_iv in which vega is 0 leaves sigma at the floor
\* and the loop running; the loop takes at most 100 turns, estimate_iv
\* returns the last sigma when they are used up, and whatever it does is a
\* return.
C26_ClampAndContinue ==
    [][/\ (IvStep /\ VegaZero(iv_args)) => (iv_sigma' = "floor" /\ iv_pc' = "loop")
       /\ iv_iter' <= max_iterations
       /\ (iv_pc = "loop" /\ iv_iter = max_iterations /\ iv_pc' = "done")
             => iv_out' = <<"sigma", iv_sigma>>
       /\ iv_out' # <<>> => iv_out'[1] \in {"sigma", "zero"}]_vars

\* ---- C21 ----
Abs(x) == IF x < 0 THEN -x ELSE x

C22_SameWindow ==
    (render_rows # <<>> /\ chain_data = {sub_strikes[1][i] : i \in 1..11}) =>
       {r.strike : r \in render_rows[1]} = {sub_strikes[1][i] : i \in 1..11}

\* ---- C28 ----
\* C28: once should_exit is set, no thread starts a connection attempt and
\* none begins the sleep of _handle_reconnect (the step that sleeps is the
\* one that enters _connect afterwards).
C28_StopOnSignal ==
    [][should_exit => \A t \in Threads : ~AttemptStart(t)]_vars

\* ---- C29 ----
\* C29: when run_monitor has closed the handler and the process exits, the
\* stop event of the Excel worker is set.
C29_WorkerStopped ==
    (exit_status # <<>> /\ ws_handler # 0) => stop_event

\* every configured index has an entry with a positive price in
\* market_data
AllSpotsLive ==
    \A i \in SPOT_TOKENS :
        /\ i.symbol \in DOMAIN market_data
        /\ market_data[i.symbol].last_price > 0

\* C23: delayed_options_subscription calls _subscribe_options only in a
\* state where every configured index has a live spot price in
\* market_data, and at most once on a handler
C23_TriggerOnceWhenLive ==
    [][optCalls' # optCalls => (AllSpotsLive /\ optCalls = 0)]_vars

\* the deferred subscription has been started and a spot tick of every
\* configured index has been stored
SpotsArrived ==
    /\ opc # "off"
    /\ \A i \in SPOT_TOKENS : i.symbol \in DOMAIN market_data

\* C24: once the connection is up and the spot ticks of all configured
\* indices have arrived, _subscribe_options is eventually called,
\* whatever the delay of the ticks
C24_EventuallySubscribed == SpotsArrived ~> (optCalls > 0)

\* the entry of each map that some tick of the instrument has stored
\* carries the price fields given
PriceFieldsAre(token, fields) ==
    /\ \A k \in DOMAIN market_data :
          market_data[k].token = token =>
             <<market_data[k].last_price, market_data[k].change>> = fields
    /\ \A k \in DOMAIN futures_data :
          futures_data[k].token = token =>
             <<futures_data[k].last_price, futures_data[k].change>> = fields
    /\ \A k \in DOMAIN options_data :
          options_data[k].token = token =>
             <<options_data[k].last_price, options_data[k].change>> = fields

\* C27: between two batches, the price fields of the entry of each
\* instrument are those of the last tick the feed has delivered for it
C27_ArrivalOrder ==
    tpc = "idle" =>
       \A token \in DOMAIN lastRecv : PriceFieldsAre(token, lastRecv[token])

\* _subscribe_futures has run to its end or has raised: the step of
\* _on_connect that follows the subscription of the spot tokens
SubscribeFuturesStep == tpc = "futures" /\ tpc' = "idle"

\* C31: whatever the fetches of _subscribe_futures return or raise, the
\* step leaves the connection state and the reconnect counter as they
\* are and the callback thread does not enter _handle_reconnect
C31_FetchFailureContained ==
    [][SubscribeFuturesStep =>
          /\ pc'["feed"] = pc["feed"]
          /\ connected' = connected
          /\ rcount' = rcount]_vars

\* t is inside _connect of the current handler
InConnect(t) ==
    pc[t] \in {"tokens", "kws", "wait", "reset_count", "reset_backoff"}

\* C35: at most one thread is inside _connect of the handler; stated for
\* the states with the connection down, since a thread that finds
\* self.connected true leaves _connect at its next poll
C35_SingleAttempt ==
    ~connected => Cardinality({t \in Threads : InConnect(t)}) <= 1

\* C34: once close() has been called on the handler, no thread enters
\* _connect of it
C34_NoAttemptAfterClose ==
    [][closed => \A t \in Threads : ~AttemptStart(t)]_vars

\* C36: no more than max_requests calls of wait_if_needed return within any
\* interval of time_window seconds: of any max_requests + 1 consecutive
\* returns the last is at least time_window after the first
C36_RateBound ==
    \A i \in 1..Len(rl_returns) :
        i + max_requests <= Len(rl_returns)
            => rl_returns[i + max_requests] - rl_returns[i] >= Window

\* C40: run_monitor is in its loop only with fewer than MAX_ERRORS
\* consecutive failures of update_data counted: at MAX_ERRORS it leaves the
\* loop
C40_LeavesAtMaxErrors ==
    mon_pc \in {"check", "update"} => error_count < MAX_ERRORS

\* C37: with update_data called from two threads, two puts on the queue are
\* still at least update_interval apart
C37_MinIntervalTwoCallers ==
    [][Len(queue') > Len(queue) =>
          \/ enqueuedAt = <<>>
          \/ now - enqueuedAt[1] >= update_interval]_vars

\* C38: the volume of a futures entry never decreases, whatever the feed
\* delivers and however often on_connect is delivered
C38_VolumeNeverDecreases ==
    [][\A symbol \in DOMAIN futures_data :
          symbol \in DOMAIN futures_data' =>
             futures_data'[symbol].volume >= futures_data[symbol].volume]_vars

\* C39: with the worker thread scheduled fairly, every view on the queue is
\* eventually taken off it by the worker, whether starting Excel succeeds
\* or raises
C39_QueueDrained == (queue # <<>>) ~> (queue = <<>>)

\* C32: every entry of options_data carries the strike, the option type and
\* the expiry of its contract (the sheet takes the time to expiry from the
\* entry's expiry)
C32_EntryCarriesExpiry ==
    \A symbol \in DOMAIN options_data :
        {"strike", "option_type", "expiry"} \subseteq DOMAIN options_data[symbol]

\* C33: every row written for an option lies in the block of the index:
\* from options_rows[index_name] to options_rows[index_name] + 10
C33_RowsInBlock ==
    render_rows # <<>> =>
        \A r \in render_rows[1] : r.row_offset \in 0..10

====
